---- MODULE Spec2Model ----
(***************************************************************************)
(* Model of crypto-monitor (src/dashboard-server.js): the resilient        *)
(* fetcher (CryptoMonitor.getTopCryptos and its rate-limit / cache state)  *)
(* and the three regime stabilizers (long-horizon score per asset, market  *)
(* leader, cycle phase).                                                   *)
(*                                                                         *)
(* Time is Date.now() in milliseconds, shifted so that the process starts  *)
(* at one minute; the clock advances in steps of one minute.  Every        *)
(* duration the code compares (retry-after seconds * 1000, the 1- and      *)
(* 5-minute back-offs, the 10-minute cache age) is a multiple of that      *)
(* step.  The retry sleeps (1s..8s) are shorter than a step: the clock may *)
(* or may not advance while a call sleeps.                                 *)
(*                                                                         *)
(* getTopCryptos is an async function: it runs atomically between awaits   *)
(* (axios.get, sleep, saveApiCache), and calls of overlapping analysis     *)
(* cycles interleave at those points.  One action models each such         *)
(* synchronous segment.                                                    *)
(***************************************************************************)
EXTENDS Integers, Sequences, FiniteSets, TLC

(***************************************************************************)
(* Bounds of the model.                                                    *)
(***************************************************************************)
MaxTicks == 12
OverlapTicks == 3
MaxCalls == 3

(***************************************************************************)
(* JavaScript values that are not numbers.                                 *)
(***************************************************************************)
Null == -1
NaN == -2

Minute == 60000
StartTime == Minute

maxCacheAge == 10 * 60 * 1000
\* one attempt more than line 705 allows
maxRetriesFour == 3 + 1

maxRetries == 3
defaultBackoff429 == 5 * 60 * 1000
defaultBackoffOther == 60 * 1000

Callers == {1, 2}
Limits == {100, 200}

(***************************************************************************)
(* Upstream payloads (response.data).  NullBody is a JSON null body, whose *)
(* .length read at the success log line raises inside the try block;       *)
(* EmptyArr is []; the positive values name non-empty snapshots; Malformed  *)
(* is a JSON object that is not an array (no length, no slice).            *)
(***************************************************************************)
NullBody == -3
Malformed == -4
EmptyArr == 0
Payloads == {NullBody, 1, 2}
\* the snapshot a previous run left in api_cache.json
StoredPayload == 3

(***************************************************************************)
(* The retry-after header: absent, or a string given as its characters.    *)
(***************************************************************************)
NoHeader == << >>
H0 == <<"0">>
H120 == <<"1", "2", "0">>
HDate == <<"W", "e", "d">>
Headers == {NoHeader, H0, H120, HDate}

DigitVal(ch) ==
  CASE ch = "0" -> 0 [] ch = "1" -> 1 [] ch = "2" -> 2 [] ch = "3" -> 3
    [] ch = "4" -> 4 [] ch = "5" -> 5 [] ch = "6" -> 6 [] ch = "7" -> 7
    [] ch = "8" -> 8 [] ch = "9" -> 9 [] OTHER -> Null

RECURSIVE ParseDigits(_, _, _)
ParseDigits(s, i, acc) ==
  IF i > Len(s) \/ DigitVal(s[i]) = Null THEN acc
  ELSE ParseDigits(s, i + 1, acc * 10 + DigitVal(s[i]))

\* parseInt(str): the leading decimal digits, NaN when there is none.
ParseInt(s) ==
  IF Len(s) = 0 \/ DigitVal(s[1]) = Null THEN NaN ELSE ParseDigits(s, 1, 0)

\* JavaScript number arithmetic and comparison with NaN.
Mul(a, b) == IF a = NaN \/ b = NaN THEN NaN ELSE a * b
Add(a, b) == IF a = NaN \/ b = NaN THEN NaN ELSE a + b
Gt(a, b) == a # NaN /\ b # NaN /\ a > b
\* truthiness of a value that is null, NaN or a number
Truthy(v) == v # Null /\ v # NaN /\ v # 0
\* truthiness of a header string
HeaderPresent(h) == Len(h) > 0

(***************************************************************************)
(* Upstream outcomes of one axios.get: an HTTP response with a status      *)
(* (error.response set for non-2xx), a timeout (code ECONNABORTED), or a   *)
(* network error (no response, other code).                                *)
(***************************************************************************)
NoResponse == 0

VARIABLES
  clock,                \* Date.now()
  apiCache,             \* this.apiCache: limit -> entry
  lastSuccessfulFetch,  \* this.lastSuccessfulFetch
  rateLimitInfo,        \* this.rateLimitInfo
  cacheFile,            \* contents of api_cache.json
  cacheLoaded,          \* loadApiCache() has completed
  call,                 \* per caller: the getTopCryptos invocation in progress
  ret,                  \* what the step just taken handed to a caller of
                        \* getTopCryptos (kind "none" when it returned
                        \* nothing), with the status of the error it gave up
                        \* on and whether it logged the expiry of the limit
  calls,                \* number of getTopCryptos calls started
  htfHistory,           \* this.htfHistory[coinId].scores (the raw scores)
  htfResult,            \* last value of analyzeHTFInvestmentWithStability
  marketLeaderHistory,  \* this.marketLeaderHistory
  leaderResult,         \* last value of identifyMarketLeaderWithStability
  cycleHistory,         \* this.cycleHistory
  cycleResult,          \* last value of determineCyclePhaseWithStability
  priceHistory,         \* this.priceHistory[coinId], for one asset
  priceFile,            \* contents of crypto_history.json, for that asset
  priceStart,           \* what crypto_history.json held when the process
                        \* started
  priceLoaded,          \* loadPriceHistory() has completed
  ingestedPrices,       \* the prices updatePriceHistory has pushed so far
  program,              \* the file the dashboard was started from
  started,              \* number of dashboard analysis cycles started
  timerFired,           \* number of times the setInterval callback has run
  caught,               \* number of exceptions caught by runAnalysis
  run,                  \* per cycle in progress: its position in runAnalysis
  lastAnalysis,         \* this.lastAnalysis of the dashboard
  lastMarketTrend,      \* this.lastMarketTrend of the dashboard
  indicator             \* the last indicator or classifier call: function,
                        \* arguments and returned value

fetchVars == <<clock, apiCache, lastSuccessfulFetch, rateLimitInfo, cacheFile,
               cacheLoaded, call, ret, calls>>
htfVars == <<htfHistory, htfResult>>
leaderVars == <<marketLeaderHistory, leaderResult>>
cycleVars == <<cycleHistory, cycleResult>>
priceVars == <<priceHistory, priceFile, priceStart, priceLoaded,
               ingestedPrices>>
dashVars ==
  <<program, started, timerFired, caught, run, lastAnalysis, lastMarketTrend>>
vars == <<fetchVars, htfVars, leaderVars, cycleVars, priceVars, dashVars,
          indicator>>

(***************************************************************************)
(* Fetch cache entries.                                                    *)
(***************************************************************************)
NoEntry == [present |-> FALSE, data |-> EmptyArr, timestamp |-> 0]
Entry(d, t) == [present |-> TRUE, data |-> d, timestamp |-> t]
EmptyCache == [l \in Limits |-> NoEntry]

\* api_cache.json as a previous run can have left it: missing, or holding an
\* entry written before this process started.
StoredCache == [l \in Limits |-> IF l = 200 THEN Entry(StoredPayload, 0)
                                 ELSE NoEntry]

IdleCall == [pc |-> "idle", limit |-> 200, attempt |-> 0,
             errStatus |-> NoResponse, errCode |-> "none",
             errHeader |-> NoHeader, backoffMs |-> 0, data |-> EmptyArr,
             snapshot |-> EmptyCache, succeeded |-> FALSE]
NoReturn == [kind |-> "none", data |-> EmptyArr, limit |-> 200, attempts |-> 0,
             status |-> NoResponse, expired |-> FALSE]

InitRateLimitInfo == [isLimited |-> FALSE, resetTime |-> Null,
                      retryAfter |-> Null, requestCount |-> 0,
                      lastRequest |-> Null]

InitFetch ==
  /\ clock = StartTime
  /\ apiCache = EmptyCache
  /\ lastSuccessfulFetch = Null
  /\ rateLimitInfo = InitRateLimitInfo
  /\ cacheFile \in {EmptyCache, StoredCache}
  /\ cacheLoaded = FALSE
  /\ call = [c \in Callers |-> IdleCall]
  /\ ret = NoReturn
  /\ calls = 0

InitRegime ==
  /\ htfHistory = << >>
  /\ htfResult = [score10 |-> 0, raw |-> 0, hysteresis |-> FALSE, n |-> 0]
  /\ marketLeaderHistory = << >>
  /\ leaderResult = [leader |-> "none", stabilized |-> FALSE, raw |-> "none",
                     margin |-> 0, stabilityRatio |-> 100,
                     recentSwitches |-> 0]
  /\ cycleHistory = << >>
  /\ cycleResult = [phase |-> "none", stabilized |-> FALSE, raw |-> "none",
                    stabilityRatio |-> 100, riskVolatility |-> 0,
                    opportunityVolatility |-> 0, recentSwitches |-> 0]

\* crypto_history.json as a previous run can have left it: missing, or
\* holding the asset's series
StoredPrices == <<101, 102, 103>>
\* no indicator has been called yet
NoIndicator == [fn |-> "none", prices |-> << >>, period |-> 0,
                sparkline |-> << >>, value |-> [isNull |-> TRUE]]

InitPrices(stored) ==
  /\ priceHistory = << >>
  /\ priceStart \in stored
  /\ priceFile = priceStart
  /\ priceLoaded = FALSE
  /\ ingestedPrices = << >>
  /\ indicator = NoIndicator

\* the dashboard object as its constructor leaves the fields (lines 10-12),
\* before initializeCryptoMonitor starts the first cycle
IdleRun == [pc |-> "idle", origin |-> "none", ordinal |-> 0,
            coinsData |-> EmptyArr]
NoAnalysis == [kind |-> "null", cycle |-> 0, snapshot |-> EmptyArr,
               alerts |-> 0]
NoTrend == [trend |-> "null", cycle |-> 0]

InitDashboard(programs) ==
  /\ program \in programs
  /\ started = 0
  /\ timerFired = 0
  /\ caught = 0
  /\ run = [c \in Callers |-> IdleRun]
  /\ lastAnalysis = NoAnalysis
  /\ lastMarketTrend = NoTrend

Init ==
  /\ InitFetch /\ InitRegime /\ InitPrices({<< >>})
  /\ InitDashboard({"dashboard-server.js"})

\* the fetcher at rest, for the behaviours of the stabilizers alone
InitQuiet == Init /\ cacheFile = EmptyCache

(***************************************************************************)
(* CryptoMonitor.loadApiCache: started by the constructor, completes       *)
(* later and replaces this.apiCache by the file's contents ({} when the    *)
(* file is missing).                                                       *)
(***************************************************************************)
loadApiCache ==
  /\ ~cacheLoaded
  /\ cacheLoaded' = TRUE
  /\ apiCache' = cacheFile
  /\ ret' = NoReturn
  /\ UNCHANGED <<clock, lastSuccessfulFetch, rateLimitInfo, cacheFile, call,
                 calls>>

\* Time passes.  The read of api_cache.json completes before the first
\* minute mark.
Tick(ticks) ==
  /\ clock < StartTime + ticks * Minute
  /\ cacheLoaded
  /\ clock' = clock + Minute
  /\ ret' = NoReturn
  /\ UNCHANGED <<apiCache, lastSuccessfulFetch, rateLimitInfo, cacheFile,
                 cacheLoaded, call, calls>>

\* shouldUseCachedData comparing with <= at line 610: a fetch exactly
\* maxCacheAge old still counts as fresh
shouldUseCachedDataInclusive(rl, lsf, now) ==
  LET cacheAge == now - (IF Truthy(lsf) THEN lsf ELSE 0)
  IN rl.isLimited \/ (Truthy(lsf) /\ cacheAge <= maxCacheAge)

(***************************************************************************)
(* CryptoMonitor.shouldUseCachedData                                       *)
(***************************************************************************)
shouldUseCachedData(rl, lsf, now) ==
  LET cacheAge == now - (IF Truthy(lsf) THEN lsf ELSE 0)
  IN rl.isLimited \/ (Truthy(lsf) /\ cacheAge < maxCacheAge)

(***************************************************************************)
(* CryptoMonitor.updateRateLimitInfo(response)                             *)
(***************************************************************************)
updateRateLimitInfo(rl, header, now) ==
  LET counted == [rl EXCEPT !.requestCount = @ + 1, !.lastRequest = now]
      ra == Mul(ParseInt(header), 1000)
  IN IF HeaderPresent(header)
     THEN [counted EXCEPT !.retryAfter = ra, !.resetTime = Add(now, ra)]
     ELSE counted

\* handleRateLimitError without the conversion of the header's seconds to
\* milliseconds (line 640)
handleRateLimitErrorSeconds(rl, status, header, now) ==
  LET ra == IF status = 429
            THEN IF HeaderPresent(header)
                 THEN ParseInt(header)
                 ELSE defaultBackoff429
            ELSE defaultBackoffOther
  IN [rl EXCEPT !.isLimited = TRUE, !.retryAfter = ra,
                !.resetTime = Add(now, ra)]

(***************************************************************************)
(* CryptoMonitor.handleRateLimitError(error)                               *)
(***************************************************************************)
handleRateLimitError(rl, status, header, now) ==
  LET ra == IF status = 429
            THEN IF HeaderPresent(header)
                 THEN Mul(ParseInt(header), 1000)
                 ELSE defaultBackoff429
            ELSE defaultBackoffOther
  IN [rl EXCEPT !.isLimited = TRUE, !.retryAfter = ra,
                !.resetTime = Add(now, ra)]

\* checkRateLimitExpiry comparing with >= at line 660: the limit is lifted at
\* the reset time itself
checkRateLimitExpiryAtReset(rl, now) ==
  IF rl.isLimited /\ Truthy(rl.resetTime) /\ ~Gt(rl.resetTime, now)
  THEN [rl EXCEPT !.isLimited = FALSE, !.retryAfter = Null,
                  !.resetTime = Null]
  ELSE rl

\* checkRateLimitExpiry that never lifts the limit
checkRateLimitExpiryNever(rl, now) == rl

(***************************************************************************)
(* CryptoMonitor.checkRateLimitExpiry                                      *)
(***************************************************************************)
checkRateLimitExpiry(rl, now) ==
  IF rl.isLimited /\ Truthy(rl.resetTime) /\ Gt(now, rl.resetTime)
  THEN [rl EXCEPT !.isLimited = FALSE, !.retryAfter = Null,
                  !.resetTime = Null]
  ELSE rl

(***************************************************************************)
(* CryptoMonitor.getTopCryptos(limit)                                      *)
(***************************************************************************)
Min(a, b) == IF a < b THEN a ELSE b

RECURSIVE Pow2(_)
Pow2(n) == IF n = 0 THEN 1 ELSE 2 * Pow2(n - 1)

\* back-off before the next attempt (lines 751, 761, 768)
serverBackoffMs(attempt) == Min(1000 * Pow2(attempt - 1), 30000)
timeoutBackoffMs(attempt) == Min(2000 * attempt, 10000)

Returned(kind, data, limit, attempts) ==
  [NoReturn EXCEPT !.kind = kind, !.data = data, !.limit = limit,
                   !.attempts = attempts]

\* the value the call hands back at lines 676-693, or "request" when it goes
\* on to the network
entryDecision(rl, lsf, cache, limit, now) ==
  IF shouldUseCachedData(rl, lsf, now) /\ cache[limit].present
  THEN Returned("cached", cache[limit].data, limit, 0)
  ELSE IF rl.isLimited
  THEN IF cache[limit].present
       THEN Returned("limitedCached", cache[limit].data, limit, 0)
       ELSE Returned("limitedEmpty", EmptyArr, limit, 0)
  ELSE Returned("request", EmptyArr, limit, 0)

\* fallbackReturn without the look-up at lines 781-785: a failed call always
\* hands back []
fallbackReturnNoCache(cache, limit, attempts) ==
  Returned("fallbackEmpty", EmptyArr, limit, attempts)

\* lines 780-789: what the call hands back after the retry loop
fallbackReturn(cache, limit, attempts) ==
  IF cache[limit].present
  THEN Returned("fallbackCached", cache[limit].data, limit, attempts)
  ELSE Returned("fallbackEmpty", EmptyArr, limit, attempts)

\* lines 776-789: after the retry loop
GiveUp(c, status, header) ==
  /\ rateLimitInfo' = handleRateLimitError(rateLimitInfo, status, header, clock)
  /\ ret' = [fallbackReturn(apiCache, call[c].limit, call[c].attempt)
               EXCEPT !.status = status]
  /\ call' = [call EXCEPT ![c] = IdleCall]
  /\ UNCHANGED <<clock, apiCache, lastSuccessfulFetch, cacheFile, cacheLoaded,
                 calls>>

\* lines 669-712: entry of the call up to the first axios.get
Call(c, limit) ==
  /\ call[c].pc = "idle"
  /\ calls < MaxCalls
  /\ calls' = calls + 1
  /\ LET rl == checkRateLimitExpiry(rateLimitInfo, clock)
         d == entryDecision(rl, lastSuccessfulFetch, apiCache, limit, clock)
     IN /\ rateLimitInfo' = rl
        /\ IF d.kind = "request"
           THEN /\ call' = [call EXCEPT ![c] =
                              [IdleCall EXCEPT !.pc = "request",
                                               !.limit = limit, !.attempt = 1]]
                /\ ret' = [NoReturn EXCEPT !.expired = (rl # rateLimitInfo)]
           ELSE /\ ret' = [d EXCEPT !.expired = (rl # rateLimitInfo)]
                /\ UNCHANGED call
  /\ UNCHANGED <<clock, apiCache, lastSuccessfulFetch, cacheFile, cacheLoaded>>

\* lines 721-732: a 2xx response, up to the await of saveApiCache
RespondOk(c, header, payload) ==
  /\ call[c].pc = "request"
  /\ rateLimitInfo' = updateRateLimitInfo(rateLimitInfo, header, clock)
  /\ apiCache' = [apiCache EXCEPT ![call[c].limit] = Entry(payload, clock)]
  /\ lastSuccessfulFetch' = clock
  /\ call' = [call EXCEPT ![c].pc = "saving", ![c].data = payload,
                          ![c].snapshot = apiCache', ![c].succeeded = TRUE]
  /\ ret' = NoReturn
  /\ UNCHANGED <<clock, cacheFile, cacheLoaded, calls>>

\* SaveDone without the await at line 732: the call returns while the file
\* is still unwritten
SaveDoneUnwritten(c) ==
  /\ call[c].pc = "saving"
  /\ IF call[c].data = NullBody
     THEN /\ call' = [call EXCEPT ![c].pc = "sleeping",
                        ![c].errStatus = NoResponse, ![c].errCode = "TypeError",
                        ![c].errHeader = NoHeader,
                        ![c].backoffMs = serverBackoffMs(call[c].attempt)]
          /\ ret' = NoReturn
     ELSE /\ ret' = Returned("fetched", call[c].data, call[c].limit,
                             call[c].attempt)
          /\ call' = [call EXCEPT ![c] = IdleCall]
  /\ UNCHANGED <<clock, apiCache, lastSuccessfulFetch, rateLimitInfo,
                 cacheFile, cacheLoaded, calls>>

\* lines 732-735 and, for a null body, 737-771: saveApiCache has written the
\* file; response.data.length raises for a null body, the catch takes the
\* TypeError for a network error and the loop goes on
SaveDone(c) ==
  /\ call[c].pc = "saving"
  /\ cacheFile' = call[c].snapshot
  /\ IF call[c].data = NullBody
     THEN /\ call' = [call EXCEPT ![c].pc = "sleeping",
                        ![c].errStatus = NoResponse, ![c].errCode = "TypeError",
                        ![c].errHeader = NoHeader,
                        ![c].backoffMs = serverBackoffMs(call[c].attempt)]
          /\ ret' = NoReturn
     ELSE /\ ret' = Returned("fetched", call[c].data, call[c].limit,
                             call[c].attempt)
          /\ call' = [call EXCEPT ![c] = IdleCall]
  /\ UNCHANGED <<clock, apiCache, lastSuccessfulFetch, rateLimitInfo,
                 cacheLoaded, calls>>

\* lines 737-758 and 776-789: an error response
RespondError(c, status, header) ==
  /\ call[c].pc = "request"
  /\ status # 200
  /\ IF status = 429
     THEN \* handled at line 742, break, handled again at line 778
          /\ rateLimitInfo' =
               handleRateLimitError(
                 handleRateLimitError(rateLimitInfo, status, header, clock),
                 status, header, clock)
          /\ ret' = [fallbackReturn(apiCache, call[c].limit, call[c].attempt)
                       EXCEPT !.status = status]
          /\ call' = [call EXCEPT ![c] = IdleCall]
          /\ UNCHANGED <<clock, apiCache, lastSuccessfulFetch, cacheFile,
                         cacheLoaded, calls>>
     ELSE IF status >= 500
     THEN /\ call' = [call EXCEPT ![c].pc = "sleeping",
                        ![c].errStatus = status, ![c].errCode = "none",
                        ![c].errHeader = header,
                        ![c].backoffMs = serverBackoffMs(call[c].attempt)]
          /\ ret' = NoReturn
          /\ UNCHANGED <<clock, apiCache, lastSuccessfulFetch, rateLimitInfo,
                         cacheFile, cacheLoaded, calls>>
     ELSE \* client error: break, then line 778
          GiveUp(c, status, header)

\* lines 759-764: the request timed out (axios timeout 30000)
Timeout(c) ==
  /\ call[c].pc = "request"
  /\ call' = [call EXCEPT ![c].pc = "sleeping",
                ![c].errStatus = NoResponse, ![c].errCode = "ECONNABORTED",
                ![c].errHeader = NoHeader,
                ![c].backoffMs = timeoutBackoffMs(call[c].attempt)]
  /\ ret' = NoReturn
  /\ UNCHANGED <<clock, apiCache, lastSuccessfulFetch, rateLimitInfo,
                 cacheFile, cacheLoaded, calls>>

\* lines 765-771: no response and another error code
NetworkError(c) ==
  /\ call[c].pc = "request"
  /\ call' = [call EXCEPT ![c].pc = "sleeping",
                ![c].errStatus = NoResponse, ![c].errCode = "ENOTFOUND",
                ![c].errHeader = NoHeader,
                ![c].backoffMs = serverBackoffMs(call[c].attempt)]
  /\ ret' = NoReturn
  /\ UNCHANGED <<clock, apiCache, lastSuccessfulFetch, rateLimitInfo,
                 cacheFile, cacheLoaded, calls>>

\* the sleep is over: `continue`, so the next attempt (lines 708-712) or,
\* after the last one, lines 776-789
Wake(c) ==
  /\ call[c].pc = "sleeping"
  /\ IF call[c].attempt + 1 <= maxRetries
     THEN /\ call' = [call EXCEPT ![c].pc = "request", ![c].attempt = @ + 1]
          /\ ret' = NoReturn
          /\ UNCHANGED <<clock, apiCache, lastSuccessfulFetch, rateLimitInfo,
                         cacheFile, cacheLoaded, calls>>
     ELSE GiveUp(c, call[c].errStatus, call[c].errHeader)



regimeVars == <<htfVars, leaderVars, cycleVars>>

NextFetch(cs, ps, hs429, ticks) ==
  \/ loadApiCache
  \/ Tick(ticks)
  \/ \E c \in cs : Call(c, 200)
  \/ \E c \in cs, payload \in ps : RespondOk(c, NoHeader, payload)
  \/ \E c \in cs : SaveDone(c)
  \/ \E c \in cs, header \in hs429 : RespondError(c, 429, header)
  \/ \E c \in cs, status \in {404, 503}, header \in {NoHeader, H120} :
       RespondError(c, status, header)
  \/ \E c \in cs : Timeout(c)
  \/ \E c \in cs : NetworkError(c)
  \/ \E c \in cs : Wake(c)

\* One analysis cycle at a time calls getTopCryptos(200); the upstream may
\* answer anything.
SpecFetch ==
  Init /\ [][NextFetch({1}, Payloads, Headers, MaxTicks)
             /\ UNCHANGED <<regimeVars, priceVars, dashVars, indicator>>]_vars

\* Two overlapping analysis cycles (the interval timer and POST /api/refresh)
\* call getTopCryptos(200).
SpecOverlap ==
  Init /\ [][NextFetch(Callers, {1, 2}, {NoHeader, H0, H120}, OverlapTicks)
             /\ UNCHANGED <<regimeVars, priceVars, dashVars, indicator>>]_vars


\* One caller of getTopCryptos(limit) with either asset count, the cache file
\* missing at the start; the upstream answers 2xx or 429.
NextKeys ==
  \/ loadApiCache
  \/ Tick(MaxTicks)
  \/ \E limit \in Limits : Call(1, limit)
  \/ RespondOk(1, NoHeader, 1)
  \/ SaveDone(1)
  \/ RespondError(1, 429, H120)

SpecKeys ==
  InitQuiet /\ [][NextKeys
                  /\ UNCHANGED <<regimeVars, priceVars, dashVars,
                                 indicator>>]_vars

(***************************************************************************)
(* Regime stabilizers.  Scores with one decimal (risk, opportunity, the    *)
(* published long-horizon score) are kept in tenths; means are compared as *)
(* exact fractions.  The inputs below are multiples of 0.5, for which the  *)
(* code's double arithmetic gives the same comparisons.                    *)
(***************************************************************************)
RECURSIVE SumSeq(_)
SumSeq(q) == IF q = << >> THEN 0 ELSE Head(q) + SumSeq(Tail(q))

Abs(x) == IF x < 0 THEN -x ELSE x
Max(a, b) == IF a > b THEN a ELSE b

\* array.slice(-n)
LastN(q, n) == IF Len(q) <= n THEN q ELSE SubSeq(q, Len(q) - n + 1, Len(q))
\* push, then pop instead of shift when longer than cap: the newest entry is
\* the one dropped
PushCappedPop(q, e, cap) ==
  LET p == Append(q, e) IN IF Len(p) > cap THEN q ELSE p

\* push, then shift when longer than cap
PushCapped(q, e, cap) ==
  LET p == Append(q, e) IN IF Len(p) > cap THEN Tail(p) ELSE p

\* Math.round(num / den) for den > 0: halves go up
RoundDiv(num, den) == (2 * num + den) \div (2 * den)

\* Object.keys of the count table: the labels in order of first occurrence
RECURSIVE KeysOf(_, _)
KeysOf(q, seen) ==
  IF q = << >> THEN << >>
  ELSE IF Head(q) \in seen THEN KeysOf(Tail(q), seen)
  ELSE <<Head(q)>> \o KeysOf(Tail(q), seen \cup {Head(q)})

CountOf(q, x) == Cardinality({i \in 1..Len(q) : q[i] = x})

\* keys.reduce((a, b) => counts[a] > counts[b] ? a : b)
RECURSIVE ReduceDominant(_, _, _)
\* the reduce keeping the earlier key on equal counts
RECURSIVE ReduceDominantFirst(_, _, _)
ReduceDominantFirst(acc, keys, q) ==
  IF keys = << >> THEN acc
  ELSE ReduceDominantFirst(
         IF CountOf(q, acc) >= CountOf(q, Head(keys)) THEN acc ELSE Head(keys),
         Tail(keys), q)

ReduceDominant(acc, keys, q) ==
  IF keys = << >> THEN acc
  ELSE ReduceDominant(
         IF CountOf(q, acc) > CountOf(q, Head(keys)) THEN acc ELSE Head(keys),
         Tail(keys), q)

Dominant(q) == LET keys == KeysOf(q, {}) IN ReduceDominant(Head(keys), Tail(keys), q)

\* countLeaderSwitches / countCycleSwitches: label changes among the first
\* min(length, n) entries
CountSwitches(q, n) ==
  IF Len(q) < 2 THEN 0
  ELSE Cardinality({i \in 2..Min(Len(q), n) : q[i] # q[i - 1]})

(***************************************************************************)
(* CryptoMonitor.analyzeHTFInvestmentWithStability, for one asset.  The    *)
(* history keeps the raw scores; raw is analyzeHTFInvestment's score.      *)
(***************************************************************************)
htfCapacity == 10
RawScores == {0, 4, 5}

\* htfBase starting from the newest raw score instead of line 1527's average
htfBaseNewest(scores) == 10 * Len(scores) * scores[Len(scores)]

\* stabilizedScore before the floor rule, times 10 * n (n = Len(scores))
htfBase(scores) == 10 * SumSeq(scores)

\* htfStabilized without the hysteresis of lines 1542-1545: the score is
\* never raised to 5.0
htfStabilizedNoFloor(scores, raw) ==
  LET n == Len(scores)
      sum == SumSeq(scores)
      qualifyingScores == Cardinality({i \in 1..n : scores[i] >= 5})
      bonus1 == IF 10 * qualifyingScores >= 7 * n /\ sum >= 5 * n
                THEN 10 ELSE 0
      bonus2 == IF n >= 5 /\ 10 * qualifyingScores >= 6 * n THEN 5 ELSE 0
      stab == htfBase(scores) + (bonus1 + bonus2) * n
  IN [score10 |-> RoundDiv(stab, n), raw |-> raw,
      hysteresis |-> FALSE, n |-> n]

htfStabilized(scores, raw) ==
  LET n == Len(scores)
      sum == SumSeq(scores)
      qualifyingScores == Cardinality({i \in 1..n : scores[i] >= 5})
      \* consistencyRatio >= 0.7 && avgScore >= 5
      bonus1 == IF 10 * qualifyingScores >= 7 * n /\ sum >= 5 * n
                THEN 10 ELSE 0
      \* scores.length >= 5 && consistencyRatio >= 0.6
      bonus2 == IF n >= 5 /\ 10 * qualifyingScores >= 6 * n THEN 5 ELSE 0
      \* stabilizedScore * 10 * n
      stab == htfBase(scores) + (bonus1 + bonus2) * n
      hysteresis == qualifyingScores >= 3 /\ raw >= 4
      floored == IF hysteresis THEN Max(stab, 50 * n) ELSE stab
  IN [score10 |-> RoundDiv(floored, n), raw |-> raw,
      hysteresis |-> hysteresis, n |-> n]

analyzeHTFInvestmentWithStability(raw) ==
  /\ htfHistory' = PushCapped(htfHistory, raw, htfCapacity)
  /\ htfResult' = htfStabilized(htfHistory', raw)
  /\ UNCHANGED <<fetchVars, leaderVars, cycleVars>>

NextHTF == \E raw \in RawScores : analyzeHTFInvestmentWithStability(raw)

SpecHTF ==
  InitQuiet /\ [][NextHTF /\ UNCHANGED <<priceVars, dashVars, indicator>>]_vars

(***************************************************************************)
(* CryptoMonitor.identifyMarketLeaderWithStability.  Of a history entry    *)
(* only the leader is ever read back, so the history keeps the leaders.    *)
(***************************************************************************)
leaderCapacity == 15
leaderWindow == 10

\* (totalChange, total2Change, total3Change) in percent
ChangeTriples == {<<2, 1, 0>>, <<3, 1, 0>>, <<4, 1, 0>>,
                  <<0, 1, 2>>, <<0, 1, 4>>}

identifyMarketLeader(t, t2, t3) ==
  IF t > t2 /\ t > t3 THEN "Bitcoin"
  ELSE IF t2 > t /\ t2 > t3 THEN "Large Cap Altcoins"
  ELSE IF t3 > t /\ t3 > t2 THEN "Small Cap Altcoins"
  ELSE "Mixed"

leaderMargin(t, t2, t3) ==
  Abs(Max(Max(t, t2), t3) - Min(Min(t, t2), t3))

\* leaderDecision with the dominance threshold at 0.7 instead of line 2237's
\* 0.6
leaderDecisionSevenTenths(history, current, margin) ==
  LET recentLeaders == LastN(history, leaderWindow)
      dominantLeader == Dominant(recentLeaders)
      dominantCount == CountOf(recentLeaders, dominantLeader)
      n == Len(recentLeaders)
      stable == /\ Len(history) >= 3
                /\ 10 * dominantCount > 7 * n
                /\ margin < 3
  IN [leader |-> IF stable THEN dominantLeader ELSE current,
      stabilized |-> stable,
      raw |-> current,
      margin |-> margin,
      stabilityRatio |-> IF stable THEN RoundDiv(100 * dominantCount, n)
                         ELSE 100,
      recentSwitches |-> CountSwitches(history, 10)]

\* leaderDecision dividing the dominant count by the window size
leaderDecisionOverWindow(history, current, margin) ==
  LET recentLeaders == LastN(history, leaderWindow)
      dominantLeader == Dominant(recentLeaders)
      dominantCount == CountOf(recentLeaders, dominantLeader)
      stable == /\ Len(history) >= 3
                /\ 10 * dominantCount > 6 * leaderWindow
                /\ margin < 3
  IN [leader |-> IF stable THEN dominantLeader ELSE current,
      stabilized |-> stable,
      raw |-> current,
      margin |-> margin,
      stabilityRatio |-> IF stable
                         THEN RoundDiv(100 * dominantCount, leaderWindow)
                         ELSE 100,
      recentSwitches |-> CountSwitches(history, 10)]

\* leaderDecision with 0.4 in place of the 0.6 of line 2237
leaderDecisionTwoFifths(history, current, margin) ==
  LET recentLeaders == LastN(history, leaderWindow)
      dominantLeader == Dominant(recentLeaders)
      dominantCount == CountOf(recentLeaders, dominantLeader)
      n == Len(recentLeaders)
      stable == /\ Len(history) >= 3
                /\ 10 * dominantCount > 4 * n
                /\ margin < 3
  IN [leader |-> IF stable THEN dominantLeader ELSE current,
      stabilized |-> stable,
      raw |-> current,
      margin |-> margin,
      stabilityRatio |-> IF stable THEN RoundDiv(100 * dominantCount, n)
                         ELSE 100,
      recentSwitches |-> CountSwitches(history, 10)]

\* leaderDecision with >= in place of the > of line 2237
leaderDecisionAtLeast(history, current, margin) ==
  LET recentLeaders == LastN(history, leaderWindow)
      dominantLeader == Dominant(recentLeaders)
      dominantCount == CountOf(recentLeaders, dominantLeader)
      n == Len(recentLeaders)
      stable == /\ Len(history) >= 3
                /\ 10 * dominantCount >= 6 * n
                /\ margin < 3
  IN [leader |-> IF stable THEN dominantLeader ELSE current,
      stabilized |-> stable,
      raw |-> current,
      margin |-> margin,
      stabilityRatio |-> IF stable THEN RoundDiv(100 * dominantCount, n)
                         ELSE 100,
      recentSwitches |-> CountSwitches(history, 10)]

\* lines 2219-2259: the decision on the history that holds the new entry
leaderDecision(history, current, margin) ==
  LET recentLeaders == LastN(history, leaderWindow)
      dominantLeader == Dominant(recentLeaders)
      dominantCount == CountOf(recentLeaders, dominantLeader)
      n == Len(recentLeaders)
      stable == /\ Len(history) >= 3
                /\ 10 * dominantCount > 6 * n      \* stabilityRatio > 0.6
                /\ margin < 3
  IN [leader |-> IF stable THEN dominantLeader ELSE current,
      stabilized |-> stable,
      raw |-> current,
      margin |-> margin,
      stabilityRatio |-> IF stable THEN RoundDiv(100 * dominantCount, n)
                         ELSE 100,
      recentSwitches |-> CountSwitches(history, 10)]

identifyMarketLeaderWithStability(t, t2, t3) ==
  LET current == identifyMarketLeader(t, t2, t3)
  IN /\ marketLeaderHistory' =
          PushCapped(marketLeaderHistory, current, leaderCapacity)
     /\ leaderResult' =
          leaderDecision(marketLeaderHistory', current, leaderMargin(t, t2, t3))
     /\ UNCHANGED <<fetchVars, htfVars, cycleVars>>

NextLeader ==
  \E ch \in ChangeTriples : identifyMarketLeaderWithStability(ch[1], ch[2], ch[3])


(***************************************************************************)
(* CryptoMonitor.determineCyclePhaseWithStability.  An entry keeps phase,  *)
(* risk and opportunity (tenths); the other fields are not read back by    *)
(* the decision.                                                           *)
(***************************************************************************)
cycleCapacity == 12
cycleWindow == 8
cycleMeanWindow == 5

\* (overallRiskScore, overallOpportunityScore) in tenths: a Mid Cycle
\* reading, a Late Cycle reading 2.5 above it in risk, and a Cycle Top
\* Warning reading 4.0 above it in risk
MidScores == <<50, 50>>
LateScores == <<75, 49>>
TopScores == <<90, 20>>

determineCyclePhase(risk, opportunity) ==
  IF risk > 80 /\ opportunity < 30 THEN "Cycle Top Warning"
  ELSE IF risk > 60 /\ opportunity < 50 THEN "Late Cycle"
  ELSE IF risk < 40 /\ opportunity > 70 THEN "Cycle Bottom Opportunity"
  ELSE IF risk < 50 /\ opportunity > 50 THEN "Early Cycle"
  ELSE "Mid Cycle"

PhasesOf(q) == [i \in 1..Len(q) |-> q[i].phase]
RisksOf(q) == [i \in 1..Len(q) |-> q[i].risk]
OpportunitiesOf(q) == [i \in 1..Len(q) |-> q[i].opportunity]

\* cycleDecision without the risk half of the test at line 2593
cycleDecisionOpportunityOnly(history, entry) ==
  LET recentPhases == PhasesOf(LastN(history, cycleWindow))
      dominantPhase == Dominant(recentPhases)
      dominantCount == CountOf(recentPhases, dominantPhase)
      n == Len(recentPhases)
      recentEntries == LastN(history, cycleMeanWindow)
      m == Len(recentEntries)
      sumOpportunity == SumSeq(OpportunitiesOf(recentEntries))
      opportunityClose == Abs(m * entry.opportunity - sumOpportunity) < 20 * m
      stable == /\ Len(history) >= 3
                /\ 10 * dominantCount > 6 * n
                /\ opportunityClose
  IN [phase |-> IF stable THEN dominantPhase ELSE entry.phase,
      stabilized |-> stable,
      raw |-> entry.phase,
      stabilityRatio |-> IF stable THEN RoundDiv(100 * dominantCount, n)
                         ELSE 100,
      riskVolatility |-> 0,
      opportunityVolatility |->
        IF stable THEN RoundDiv(Abs(m * entry.opportunity - sumOpportunity), m)
        ELSE 0,
      recentSwitches |-> CountSwitches(PhasesOf(history), 8)]

cycleDecision(history, entry) ==
  LET recentPhases == PhasesOf(LastN(history, cycleWindow))
      dominantPhase == Dominant(recentPhases)
      dominantCount == CountOf(recentPhases, dominantPhase)
      n == Len(recentPhases)
      recentEntries == LastN(history, cycleMeanWindow)
      m == Len(recentEntries)
      sumRisk == SumSeq(RisksOf(recentEntries))
      sumOpportunity == SumSeq(OpportunitiesOf(recentEntries))
      \* |x - sum / m| < 2, scores in tenths
      riskClose == Abs(m * entry.risk - sumRisk) < 20 * m
      opportunityClose == Abs(m * entry.opportunity - sumOpportunity) < 20 * m
      stable == /\ Len(history) >= 3
                /\ 10 * dominantCount > 6 * n      \* phaseStability > 0.6
                /\ riskClose /\ opportunityClose
  IN [phase |-> IF stable THEN dominantPhase ELSE entry.phase,
      stabilized |-> stable,
      raw |-> entry.phase,
      stabilityRatio |-> IF stable THEN RoundDiv(100 * dominantCount, n)
                         ELSE 100,
      \* Math.round(riskDiff * 10) / 10, in tenths
      riskVolatility |->
        IF stable THEN RoundDiv(Abs(m * entry.risk - sumRisk), m) ELSE 0,
      opportunityVolatility |->
        IF stable THEN RoundDiv(Abs(m * entry.opportunity - sumOpportunity), m)
        ELSE 0,
      recentSwitches |-> CountSwitches(PhasesOf(history), 8)]

determineCyclePhaseWithStability(risk, opportunity) ==
  LET entry == [phase |-> determineCyclePhase(risk, opportunity),
                risk |-> risk, opportunity |-> opportunity]
  IN /\ cycleHistory' = PushCapped(cycleHistory, entry, cycleCapacity)
     /\ cycleResult' = cycleDecision(cycleHistory', entry)
     /\ UNCHANGED <<fetchVars, htfVars, leaderVars>>

NextCycle(scores) ==
  \E sc \in scores : determineCyclePhaseWithStability(sc[1], sc[2])

\* The two channels share no state: a behaviour runs one of them.
NextRegime(scores) ==
  \/ cycleHistory = << >> /\ NextLeader
  \/ marketLeaderHistory = << >> /\ NextCycle(scores)

\* readings that stay near the recent mean
SpecNear ==
  InitQuiet /\ [][NextRegime({MidScores, LateScores})
                  /\ UNCHANGED <<priceVars, dashVars, indicator>>]_vars
\* readings that jump away from the recent mean
SpecFar ==
  InitQuiet /\ [][NextRegime({MidScores, TopScores})
                  /\ UNCHANGED <<priceVars, dashVars, indicator>>]_vars

\* The three channels share no state: a behaviour runs one of them, on two
\* different observations each.
NextChannels ==
  \/ /\ marketLeaderHistory = << >> /\ cycleHistory = << >>
     /\ \E raw \in {0, 5} : analyzeHTFInvestmentWithStability(raw)
  \/ /\ htfHistory = << >> /\ cycleHistory = << >>
     /\ \E ch \in {<<2, 1, 0>>, <<0, 1, 4>>} :
          identifyMarketLeaderWithStability(ch[1], ch[2], ch[3])
  \/ /\ htfHistory = << >> /\ marketLeaderHistory = << >>
     /\ NextCycle({MidScores, LateScores})

SpecChannels ==
  InitQuiet /\ [][NextChannels
                  /\ UNCHANGED <<priceVars, dashVars, indicator>>]_vars

(***************************************************************************)
(* Price History Store, for one asset.  The k-th snapshot carries the      *)
(* price k, so that the order of the stored series can be read off; the    *)
(* first snapshots may carry no price (current_price null).                *)
(***************************************************************************)
priceCapacity == 50
MaxIngest == 61
NullPrices == 2

\* coin.current_price || 0
currentPrice(p) == IF Truthy(p) THEN p ELSE 0

\* CryptoMonitor.loadPriceHistory: started by the constructor, not awaited;
\* it completes later with what the read found, the file as it was at the
\* start or as savePriceHistory has rewritten it since.
loadPriceHistory ==
  /\ ~priceLoaded
  /\ priceLoaded' = TRUE
  /\ priceHistory' \in {priceStart, priceFile}
  /\ UNCHANGED <<priceFile, priceStart, ingestedPrices>>

\* CryptoMonitor.updatePriceHistory for the asset, with savePriceHistory
updatePriceHistory(p) ==
  /\ Len(ingestedPrices) < MaxIngest
  /\ priceHistory' = PushCapped(priceHistory, currentPrice(p), priceCapacity)
  /\ priceFile' = priceHistory'
  /\ ingestedPrices' = Append(ingestedPrices, currentPrice(p))
  /\ UNCHANGED <<priceStart, priceLoaded>>

NextPrices ==
  \/ loadPriceHistory
  \/ \E p \in {Len(ingestedPrices) + 1} \cup
              (IF Len(ingestedPrices) < NullPrices THEN {Null} ELSE {}) :
       updatePriceHistory(p)

InitStore ==
  /\ InitFetch /\ cacheFile = EmptyCache
  /\ InitRegime
  /\ InitPrices({<< >>, StoredPrices})
  /\ InitDashboard({"dashboard-server.js"})

SpecPrices ==
  /\ InitStore
  /\ [][NextPrices
        /\ UNCHANGED <<fetchVars, regimeVars, dashVars, indicator>>]_vars

(***************************************************************************)
(* The dashboard (CryptoDashboard).  A cycle is one invocation of          *)
(* runAnalysis; it occupies a slot of `run' (and the same slot of `call'   *)
(* while its getTopCryptos call is in progress) from its start to its      *)
(* return.  The payload of a snapshot stands for the price of the tracked  *)
(* asset in it.  src/unnamed/part_000 and src/dashboard-server.js each     *)
(* hold a CryptoDashboard; `program' says which one is running.            *)
(***************************************************************************)
Programs == {"part_000", "dashboard-server.js"}
interval == 5 * 60 * 1000

\* the thresholds of the three alert lists, in tenths of a point: lines 97,
\* 122 and 147 of part_000 (72, 97 and 122 of dashboard-server.js)
bullishThreshold == 60
bearishThreshold == 60
htfThresholdSix == 50 + 10
htfThreshold == 50

\* lines 47-67 of part_000: the fallback published by a first cycle without
\* data
ErrorPlaceholder(n) ==
  [kind |-> "error", cycle |-> n, snapshot |-> EmptyArr, alerts |-> 0]
UnknownTrend(n) == [trend |-> "Unknown", cycle |-> n]

\* snapshotRetrieved with a catch block that resets what was published
snapshotRetrievedErasing(c, origin, n, coinsData) ==
  IF coinsData = NullBody \/ coinsData = EmptyArr
  THEN /\ IF program = "part_000" /\ lastAnalysis.kind = "null"
          THEN /\ lastAnalysis' = ErrorPlaceholder(n)
               /\ lastMarketTrend' = UnknownTrend(n)
          ELSE UNCHANGED <<lastAnalysis, lastMarketTrend>>
       /\ run' = [run EXCEPT ![c] = IdleRun]
       /\ UNCHANGED <<priceVars, caught>>
  ELSE IF coinsData = Malformed
  THEN /\ caught' = caught + 1
       /\ run' = [run EXCEPT ![c] = IdleRun]
       /\ lastAnalysis' = NoAnalysis
       /\ lastMarketTrend' = NoTrend
       /\ UNCHANGED priceVars
  ELSE /\ updatePriceHistory(coinsData)
       /\ run' = [run EXCEPT ![c] = [pc |-> "indices", origin |-> origin,
                                     ordinal |-> n, coinsData |-> coinsData]]
       /\ UNCHANGED <<lastAnalysis, lastMarketTrend, caught>>

\* runAnalysis from the value of getTopCryptos to the call of
\* analyzeMarketCapIndices: lines 42-59 of dashboard-server.js, lines 42-84
\* of part_000
snapshotRetrieved(c, origin, n, coinsData) ==
  IF coinsData = NullBody \/ coinsData = EmptyArr
  THEN /\ IF program = "part_000" /\ lastAnalysis.kind = "null"
          THEN /\ lastAnalysis' = ErrorPlaceholder(n)
               /\ lastMarketTrend' = UnknownTrend(n)
          ELSE UNCHANGED <<lastAnalysis, lastMarketTrend>>
       /\ run' = [run EXCEPT ![c] = IdleRun]
       /\ UNCHANGED <<priceVars, caught>>
  ELSE IF coinsData = Malformed
  THEN \* coinsData.slice(0, 20) at line 1157 raises a TypeError inside
       \* analyzeMarketTrend, called at line 48 (73 of part_000); the catch
       \* at lines 178-180 (204-206) logs it and runAnalysis returns
       /\ caught' = caught + 1
       /\ run' = [run EXCEPT ![c] = IdleRun]
       /\ UNCHANGED <<priceVars, lastAnalysis, lastMarketTrend>>
  ELSE /\ updatePriceHistory(coinsData)
       /\ run' = [run EXCEPT ![c] = [pc |-> "indices", origin |-> origin,
                                     ordinal |-> n, coinsData |-> coinsData]]
       /\ UNCHANGED <<lastAnalysis, lastMarketTrend, caught>>

\* runAnalysis up to its first await (lines 36-41), and past it when
\* getTopCryptos answers without going to the network
runAnalysis(c, origin) ==
  /\ run[c].pc = "idle"
  /\ \A d \in Callers : run[d].pc = "idle" => c <= d
  /\ Call(c, 200)
  /\ started' = started + 1
  /\ IF ret'.kind = "none"
     THEN /\ run' = [run EXCEPT ![c] = [pc |-> "fetching", origin |-> origin,
                                        ordinal |-> started + 1,
                                        coinsData |-> EmptyArr]]
          /\ UNCHANGED <<lastAnalysis, lastMarketTrend, priceVars, caught>>
     ELSE snapshotRetrieved(c, origin, started + 1, ret'.data)
  /\ UNCHANGED <<program, regimeVars, indicator>>

\* lines 24-34: the first cycle, started by the constructor
initializeCryptoMonitor ==
  /\ started = 0
  /\ runAnalysis(1, "initial")
  /\ UNCHANGED timerFired

\* lines 31-33: the setInterval callback, every 5 minutes
timerCallback ==
  /\ started > 0
  /\ (timerFired + 1) * interval <= clock - StartTime
  /\ timerFired' = timerFired + 1
  /\ \E c \in Callers : runAnalysis(c, "timer")

\* lines 207-220 (240-253 of part_000): POST /api/refresh
postRefresh ==
  /\ started > 0
  /\ \E c \in Callers : runAnalysis(c, "refresh")
  /\ UNCHANGED timerFired

\* five minutes pass
intervalPasses(ticks) ==
  /\ started > 0
  /\ cacheLoaded
  /\ clock < StartTime + ticks * interval
  /\ clock' = clock + interval
  /\ ret' = NoReturn
  /\ UNCHANGED <<apiCache, lastSuccessfulFetch, rateLimitInfo, cacheFile,
                 cacheLoaded, call, calls, regimeVars, priceVars, dashVars,
                 indicator>>

\* what a step of the cycle's getTopCryptos call does to the cycle
fetching(c) ==
  /\ run[c].pc = "fetching"
  /\ IF ret'.kind = "none"
     THEN UNCHANGED <<run, lastAnalysis, lastMarketTrend, priceVars, caught>>
     ELSE snapshotRetrieved(c, run[c].origin, run[c].ordinal, ret'.data)
  /\ UNCHANGED <<program, started, timerFired, regimeVars, indicator>>

\* lines 1859-1960: the response to the axios.get of analyzeMarketCapIndices
\* (a request without a timeout), analysed up to its return
marketCapIndicesFetched(c, t, t2, t3) ==
  /\ run[c].pc = "indices"
  /\ identifyMarketLeaderWithStability(t, t2, t3)
  /\ run' = [run EXCEPT ![c].pc = "cycles"]
  /\ UNCHANGED <<priceVars, program, started, timerFired, caught, lastAnalysis,
                 lastMarketTrend, indicator>>

\* lines 1961-1964: the request failed, analyzeMarketCapIndices returns null
marketCapIndicesFailed(c) ==
  /\ run[c].pc = "indices"
  /\ run' = [run EXCEPT ![c].pc = "cycles"]
  /\ UNCHANGED <<fetchVars, regimeVars, priceVars, program, started,
                 timerFired, caught, lastAnalysis, lastMarketTrend, indicator>>

\* lines 2289-2337, called at line 62 (87 of part_000)
analyzeCycles(c, risk, opportunity) ==
  /\ run[c].pc = "cycles"
  /\ determineCyclePhaseWithStability(risk, opportunity)
  /\ run' = [run EXCEPT ![c].pc = "coins"]
  /\ UNCHANGED <<priceVars, program, started, timerFired, caught, lastAnalysis,
                 lastMarketTrend, indicator>>

\* lines 64-172 (89-197 of part_000): the loop over the coins, the
\* publication of the result, up to the await of the first save
publishAnalysis(c, raw) ==
  /\ run[c].pc = "coins"
  /\ analyzeHTFInvestmentWithStability(raw)
  /\ lastAnalysis' = [kind |-> "analysis", cycle |-> run[c].ordinal,
                      snapshot |-> run[c].coinsData,
                      alerts |-> IF htfResult'.score10 >= htfThreshold
                                 THEN 1 ELSE 0]
  /\ lastMarketTrend' = [trend |-> "computed", cycle |-> run[c].ordinal]
  /\ run' = [run EXCEPT ![c].pc = "saving"]
  /\ UNCHANGED <<priceVars, program, started, timerFired, caught, indicator>>

\* lines 172-177 (197-202 of part_000): the history files are written, the
\* cycle returns
historiesSaved(c) ==
  /\ run[c].pc = "saving"
  /\ run' = [run EXCEPT ![c] = IdleRun]
  /\ UNCHANGED <<fetchVars, regimeVars, priceVars, program, started,
                 timerFired, caught, lastAnalysis, lastMarketTrend, indicator>>

dashboardStep(payloads, ticks) ==
  \/ initializeCryptoMonitor
  \/ timerCallback
  \/ postRefresh
  \/ intervalPasses(ticks)
  \/ /\ loadApiCache
     /\ UNCHANGED <<regimeVars, priceVars, dashVars, indicator>>
  \/ \E c \in Callers, payload \in payloads :
       RespondOk(c, NoHeader, payload) /\ fetching(c)
  \/ \E c \in Callers : SaveDone(c) /\ fetching(c)
  \/ \E c \in Callers : RespondError(c, 429, NoHeader) /\ fetching(c)
  \/ \E c \in Callers : Timeout(c) /\ fetching(c)
  \/ \E c \in Callers : Wake(c) /\ fetching(c)
  \/ \E c \in Callers : marketCapIndicesFetched(c, 2, 1, 0)
  \/ \E c \in Callers : marketCapIndicesFailed(c)
  \/ \E c \in Callers : analyzeCycles(c, 50, 50)
  \/ \E c \in Callers : publishAnalysis(c, 5)
  \/ \E c \in Callers : historiesSaved(c)

\* the process before the constructor of either dashboard has run
InitPrograms ==
  /\ InitFetch /\ cacheFile = EmptyCache
  /\ InitRegime
  /\ InitPrices({<< >>})
  /\ InitDashboard(Programs)

NextDashboard == dashboardStep({1}, 1)
SpecDashboard == InitPrograms /\ [][NextDashboard]_vars

\* the upstream may also answer 200 with a body that is not an array, and
\* the cached copy of such a body outlives the 10 minutes of a cache entry
NextFaulty == dashboardStep({1, Malformed}, 2)
SpecFaulty == InitPrograms /\ [][NextFaulty]_vars

(***************************************************************************)
(* Indicator library.  Prices are integers; a returned number is kept as   *)
(* the exact fraction num/den (den > 0) of the value the code computes in  *)
(* floating point, and null as a value with isNull.                        *)
(***************************************************************************)
Unavailable == [isNull |-> TRUE, num |-> 0, den |-> 1]
Frac(n, d) == [isNull |-> FALSE, num |-> n, den |-> d]

\* prices.slice(0, n)
FirstN(q, n) == IF Len(q) <= n THEN q ELSE SubSeq(q, 1, n)

\* lines 797-800
Deltas(prices) == [i \in 1..(Len(prices) - 1) |-> prices[i + 1] - prices[i]]

\* lines 792-813; 100 - 100 / (1 + avgGain / avgLoss) is
\* 100 * sumGain / (sumGain + sumLoss)
calculateRSI(prices, period) ==
  IF Len(prices) < period + 1
  THEN Unavailable
  ELSE LET deltas == Deltas(prices)
           gains == [i \in DOMAIN deltas |->
                       IF deltas[i] > 0 THEN deltas[i] ELSE 0]
           losses == [i \in DOMAIN deltas |->
                        IF deltas[i] < 0 THEN Abs(deltas[i]) ELSE 0]
           sumGain == SumSeq(FirstN(gains, period))
           sumLoss == SumSeq(FirstN(losses, period))
       IN IF sumLoss = 0
          THEN Frac(100, 1)
          ELSE Frac(100 * sumGain, sumGain + sumLoss)

\* calculateSMA without the guard of line 817
calculateSMAUnguarded(prices, period) ==
  Frac(SumSeq(LastN(prices, period)), period)

\* lines 816-820
calculateSMA(prices, period) ==
  IF Len(prices) < period
  THEN Unavailable
  ELSE Frac(SumSeq(LastN(prices, period)), period)

\* lines 829-831: ema = prices[i] * multiplier + ema * (1 - multiplier) with
\* multiplier 2 / (period + 1), from index i (1-based) on
RECURSIVE EMAFrom(_, _, _, _, _)
EMAFrom(prices, i, num, den, period) ==
  IF i > Len(prices)
  THEN Frac(num, den)
  ELSE EMAFrom(prices, i + 1, 2 * prices[i] * den + (period - 1) * num,
               den * (period + 1), period)

\* lines 823-834
calculateEMA(prices, period) ==
  IF Len(prices) < period
  THEN Unavailable
  ELSE EMAFrom(prices, period + 1, SumSeq(FirstN(prices, period)), period,
               period)

\* !x for a returned value: null or 0
Falsy(v) == v.isNull \/ v.num = 0

\* lines 837-855; signalLine = macdLine * 0.2 + macdLine * 0.8 is the macd
\* line itself
calculateMACD(prices, fastPeriod, slowPeriod) ==
  IF Len(prices) < slowPeriod
  THEN Unavailable
  ELSE LET fastEMA == calculateEMA(prices, fastPeriod)
           slowEMA == calculateEMA(prices, slowPeriod)
       IN IF Falsy(fastEMA) \/ Falsy(slowEMA)
          THEN Unavailable
          ELSE Frac(fastEMA.num * slowEMA.den - slowEMA.num * fastEMA.den,
                    fastEMA.den * slowEMA.den)

\* lines 858-880: middle is the SMA, the bands are middle -+ stdDev times
\* the square root of the variance varNum / varDen
calculateBollingerBands(prices, period) ==
  IF Len(prices) < period
  THEN Unavailable
  ELSE LET sma == calculateSMA(prices, period)
           recentPrices == LastN(prices, period)
           squares == [i \in DOMAIN recentPrices |->
                         (recentPrices[i] * sma.den - sma.num)
                           * (recentPrices[i] * sma.den - sma.num)]
       IN IF Falsy(sma)
          THEN Unavailable
          ELSE [isNull |-> FALSE, num |-> sma.num, den |-> sma.den,
                varNum |-> SumSeq(squares),
                varDen |-> sma.den * sma.den * period]

\* line 932: filter(price => price !== null && price !== undefined)
RECURSIVE NonNull(_)
NonNull(q) ==
  IF q = << >> THEN << >>
  ELSE IF Head(q) = Null THEN NonNull(Tail(q))
  ELSE <<Head(q)>> \o NonNull(Tail(q))

\* a > b for two numbers kept as fractions
FracGt(a, b) == a.num * b.den > b.num * a.den

\* the moving-average signals with the two alignments exchanged
maSignalsSwapped(price, sma20, sma50) ==
  IF Falsy(sma20) \/ Falsy(sma50) THEN << >>
  ELSE IF FracGt(Frac(price, 1), sma20) /\ FracGt(sma20, sma50)
  THEN <<"Bearish MA alignment (Price < SMA20 < SMA50)">>
  ELSE IF FracGt(sma20, Frac(price, 1)) /\ FracGt(sma50, sma20)
  THEN <<"Bullish MA alignment (Price > SMA20 > SMA50)">>
  ELSE << >>

\* lines 958-967: the moving-average signals
maSignals(price, sma20, sma50) ==
  IF Falsy(sma20) \/ Falsy(sma50) THEN << >>
  ELSE IF FracGt(Frac(price, 1), sma20) /\ FracGt(sma20, sma50)
  THEN <<"Bullish MA alignment (Price > SMA20 > SMA50)">>
  ELSE IF FracGt(sma20, Frac(price, 1)) /\ FracGt(sma50, sma20)
  THEN <<"Bearish MA alignment (Price < SMA20 < SMA50)">>
  ELSE << >>

\* the fallback taken whenever the sparkline has 20 usable points
usesSparklineAlways(history, sparklinePrices) == Len(sparklinePrices) >= 20

\* lines 931-937: the sparkline replaces a stored series of fewer than 20
\* points when it has at least 20 points that are not null
usesSparkline(history, sparklinePrices) ==
  Len(history) < 20 /\ Len(sparklinePrices) >= 20

\* calculateTechnicalAnalysis (lines 926-1004): the series it analyses, the
\* available flag, the oscillator, the 20- and 50-point averages, the
\* moving-average signals and the data source it reports; current_price is
\* the field of the coin
calculateTechnicalAnalysis(history, sparkline, current_price) ==
  LET sparklinePrices == NonNull(sparkline)
      prices == IF usesSparkline(history, sparklinePrices)
                THEN sparklinePrices
                ELSE history
      price == currentPrice(current_price)
      sma20 == calculateSMA(prices, 20)
      sma50 == calculateSMA(prices, 50)
  IN IF Len(prices) < 20
     THEN [isNull |-> FALSE, available |-> FALSE, prices |-> prices,
           rsi |-> Unavailable, sma20 |-> Unavailable, sma50 |-> Unavailable,
           currentPrice |-> price, signals |-> << >>, dataSource |-> "none"]
     ELSE [isNull |-> FALSE, available |-> TRUE, prices |-> prices,
           rsi |-> calculateRSI(prices, 14),
           sma20 |-> sma20, sma50 |-> sma50, currentPrice |-> price,
           signals |-> maSignals(price, sma20, sma50),
           \* lines 998-1004; every coin carries a sparkline array
           dataSource |-> IF Len(history) < 20 THEN "sparkline"
                          ELSE "history"]

MaxObserved == 4
\* the exponential averages are taken of series of at most MaxExact points,
\* whose exact fractions stay within TLC's integers
MaxExact == 8
Periods == {1, 2, 3}
\* a stored series of 18 prices, and sparklines of 19, 20 and 21 points
\* with and without a null
StoredSeries == [i \in 1..18 |-> 10 + (i % 3)]
Sparklines ==
  {<< >>, [i \in 1..19 |-> 5], [i \in 1..20 |-> IF i = 7 THEN Null ELSE 5],
   [i \in 1..20 |-> 5], [i \in 1..21 |-> IF i = 7 THEN Null ELSE 5 + (i % 2)]}

Called(fn, prices, period, value) ==
  /\ indicator' = [NoIndicator EXCEPT !.fn = fn, !.prices = prices,
                                      !.period = period, !.value = value]
  /\ UNCHANGED <<fetchVars, regimeVars, priceVars, dashVars>>

NextIndicators ==
  \/ /\ Len(ingestedPrices) < MaxObserved
     /\ \E p \in {1, 2, 3} : updatePriceHistory(p)
     /\ UNCHANGED <<fetchVars, regimeVars, dashVars, indicator>>
  \/ \E period \in Periods :
       Called("calculateRSI", priceHistory, period,
              calculateRSI(priceHistory, period))
  \/ \E period \in Periods :
       Called("calculateSMA", priceHistory, period,
              calculateSMA(priceHistory, period))
  \/ /\ Len(priceHistory) <= MaxExact
     /\ \E period \in Periods :
          Called("calculateEMA", priceHistory, period,
                 calculateEMA(priceHistory, period))
  \/ /\ Len(priceHistory) <= MaxExact
     /\ \E period \in Periods :
          Called("calculateMACD", priceHistory, period + 1,
                 calculateMACD(priceHistory, period, period + 1))
  \/ \E period \in Periods :
       Called("calculateBollingerBands", priceHistory, period,
              calculateBollingerBands(priceHistory, period))
  \/ \E sparkline \in Sparklines :
       /\ indicator' =
            [fn |-> "calculateTechnicalAnalysis", prices |-> priceHistory,
             period |-> 20, sparkline |-> sparkline,
             value |-> calculateTechnicalAnalysis(priceHistory, sparkline, 5)]
       /\ UNCHANGED <<fetchVars, regimeVars, priceVars, dashVars>>

\* the store once the read of crypto_history.json has completed
InitLoaded ==
  /\ InitFetch /\ cacheFile = EmptyCache
  /\ InitRegime
  /\ InitDashboard({"dashboard-server.js"})
  /\ priceStart \in {<< >>, StoredSeries}
  /\ priceFile = priceStart
  /\ priceHistory = priceStart
  /\ priceLoaded = TRUE
  /\ ingestedPrices = << >>
  /\ indicator = NoIndicator

\* Ingestions and indicator calls on the stored series.
SpecIndicators == InitLoaded /\ [][NextIndicators]_vars

\* stored series of 19, 30, 49 and 50 rising prices, and a falling one
Rising(n) == [i \in 1..n |-> 100 + i]
TrendingSeries ==
  {Rising(19), Rising(30), Rising(49), Rising(50), [i \in 1..50 |-> 200 - i]}

InitTrending ==
  /\ InitFetch /\ cacheFile = EmptyCache
  /\ InitRegime
  /\ InitDashboard({"dashboard-server.js"})
  /\ priceStart \in TrendingSeries
  /\ priceFile = priceStart
  /\ priceHistory = priceStart
  /\ priceLoaded = TRUE
  /\ ingestedPrices = << >>
  /\ indicator = NoIndicator

NextSignals ==
  \/ /\ Len(ingestedPrices) < MaxObserved
     /\ \E p \in {90, 160, 170} : updatePriceHistory(p)
     /\ UNCHANGED <<fetchVars, regimeVars, dashVars, indicator>>
  \/ \E sparkline \in {<< >>, Rising(30)}, current_price \in {Null, 120, 500} :
       /\ indicator' =
            [fn |-> "calculateTechnicalAnalysis", prices |-> priceHistory,
             period |-> 50, sparkline |-> sparkline,
             value |-> calculateTechnicalAnalysis(priceHistory, sparkline,
                                                  current_price)]
       /\ UNCHANGED <<fetchVars, regimeVars, priceVars, dashVars>>

\* Technical analyses of trending series as the snapshots extend them.
SpecSignals == InitTrending /\ [][NextSignals]_vars

(***************************************************************************)
(* The long-horizon classifier.  A coin is the record of the snapshot      *)
(* fields it reads; a missing field is Null.                               *)
(***************************************************************************)
OrElse(v, default) == IF Truthy(v) THEN v ELSE default

\* lines 1358-1463: the rules before the quality filter; volume / marketCap
\* is compared by cross-multiplication, the oscillator as a fraction
htfRulesBeforeFilter(coin, prices) ==
  LET d7 == OrElse(coin.change7d, 0)
      d30 == OrElse(coin.change30d, 0)
      h1 == OrElse(coin.change1h, 0)
      h24 == OrElse(coin.change24h, 0)
      volume == OrElse(coin.volume, 0)
      marketCap == OrElse(coin.marketCap, 1)
      rank == OrElse(coin.rank, 999)
      rsi == IF Len(prices) > 14 THEN calculateRSI(prices, 14) ELSE Unavailable
  IN (IF d30 > 20 /\ d7 > 5 THEN 5
      ELSE IF d30 > 10 /\ d7 > 0 THEN 4
      ELSE IF d30 > 5 /\ d7 > -5 THEN 2 ELSE 0)
     + (IF d7 > 15 /\ d30 > 25 THEN 4 ELSE 0)
     + (IF d30 < -20 /\ d7 > 10 THEN 5
        ELSE IF d30 < -10 /\ d7 > 5 THEN 3 ELSE 0)
     + (IF d7 > 3 /\ d30 > 10 THEN 3 ELSE 0)
     + (IF marketCap > 1000000000 THEN 3
        ELSE IF marketCap > 500000000 THEN 2
        ELSE IF marketCap > 100000000 THEN 1 ELSE 0)
     + (IF 100 * volume > marketCap /\ 5 * volume < marketCap THEN 2
        ELSE IF 200 * volume > marketCap THEN 1 ELSE 0)
     + (IF rsi.isNull THEN 0
        ELSE IF rsi.num > 35 * rsi.den /\ rsi.num < 75 * rsi.den THEN 2
        ELSE IF rsi.num < 35 * rsi.den THEN 3 ELSE 0)
     + (IF rank > 300 THEN -4
        ELSE IF rank > 150 THEN -2
        ELSE IF rank <= 30 THEN 3
        ELSE IF rank <= 50 THEN 2
        ELSE IF rank <= 100 THEN 1 ELSE 0)
     + (IF h24 > 30 THEN -2 ELSE IF h1 > 15 THEN -1 ELSE 0)

\* line 1466: below the long-horizon minimums
htfLowLiquidity(coin) ==
  OrElse(coin.marketCap, 1) < 100000000 \/ OrElse(coin.volume, 0) < 5000000

\* lines 1471-1480: the two rules evaluated after the quality filter, on the
\* score it left
htfRulesAfterFilter(coin, score) ==
  LET d7 == OrElse(coin.change7d, 0)
      d30 == OrElse(coin.change30d, 0)
  IN (IF d30 > 0 /\ d7 > -5 /\ score >= 4 THEN 2 ELSE 0)
     + (IF Abs(d7) < 20 /\ d30 > 5 THEN 1 ELSE 0)

\* analyzeHTFInvestment (lines 1342-1484): the raw score
analyzeHTFInvestment(coin, prices) ==
  LET before == htfRulesBeforeFilter(coin, prices)
      filtered == IF htfLowLiquidity(coin) THEN Max(0, before - 6) ELSE before
  IN filtered + htfRulesAfterFilter(coin, filtered)

Coins ==
  [change7d : {-6, Null, 16}, change30d : {-25, 6, 30},
   change1h : {Null}, change24h : {Null, 31},
   volume : {50000, 5000000},
   marketCap : {5000000, 100000000, 1100000000},
   rank : {Null, 20}]

NextClassifier ==
  \/ /\ Len(ingestedPrices) < 1
     /\ updatePriceHistory(30)
     /\ UNCHANGED <<fetchVars, regimeVars, dashVars, indicator>>
  \/ \E coin \in Coins :
       Called("analyzeHTFInvestment", priceHistory, 14,
              [isNull |-> FALSE, coin |-> coin,
               score |-> analyzeHTFInvestment(coin, priceHistory)])

\* The long-horizon classifier applied to coins of a snapshot, with the
\* stored series as the asset's price history.
SpecClassifier == InitLoaded /\ [][NextClassifier]_vars

(***************************************************************************)
(* The coin loop of runAnalysis.  A scored asset is the record of the      *)
(* three scores the loop reads for one coin (analyzeCoin,                  *)
(* analyzeBearishCoin, analyzeHTFInvestmentWithStability), in tenths.      *)
(***************************************************************************)

\* Array.prototype.sort((a, b) => b.score - a.score): stable, descending
RECURSIVE InsertByScore(_, _)
InsertByScore(sorted, e) ==
  IF sorted = << >> THEN <<e>>
  ELSE IF Head(sorted).score >= e.score
       THEN <<Head(sorted)>> \o InsertByScore(Tail(sorted), e)
       ELSE <<e>> \o sorted
RECURSIVE SortByScore(_)
SortByScore(list) ==
  IF list = << >> THEN << >>
  ELSE InsertByScore(SortByScore(SubSeq(list, 1, Len(list) - 1)),
                     list[Len(list)])

\* the alerts pushed for one classifier, in the order of the snapshot
RECURSIVE Pushed(_, _, _, _)
Pushed(coins, i, field, threshold) ==
  IF i > Len(coins) THEN << >>
  ELSE (IF coins[i][field] >= threshold
        THEN <<[id |-> i, score |-> coins[i][field]]>>
        ELSE << >>) \o Pushed(coins, i + 1, field, threshold)

\* lines 89-176 of part_000 (64-151 of dashboard-server.js)
coinLoop(coins) ==
  [bullishAlerts |-> SortByScore(Pushed(coins, 1, "bullish", bullishThreshold)),
   bearishAlerts |-> SortByScore(Pushed(coins, 1, "bearish", bearishThreshold)),
   htfAlerts |-> SortByScore(Pushed(coins, 1, "htf", htfThreshold))]

ScoredAssets ==
  [bullish : {59, 60, 85}, bearish : {59, 60}, htf : {49, 50, 60}]
Snapshots == [1..3 -> ScoredAssets]

\* the coin loop of one cycle, on a snapshot of three assets
NextAlerts ==
  /\ indicator.fn = "none"
  /\ \E coins \in Snapshots :
       Called("coinLoop", << >>, 0,
              [isNull |-> FALSE, coins |-> coins, alerts |-> coinLoop(coins)])

SpecAlerts == InitLoaded /\ [][NextAlerts]_vars

(***************************************************************************)
(* The short-horizon classifiers.  Percentage changes are in tenths of a   *)
(* percent; a coin of this section has a positive price, a 24h range with  *)
(* high above low when it has one, and no sparkline.                       *)
(***************************************************************************)
\* lines 1254-1328: the rules of analyzeCoin before its quality filter, with
\* detectVolumeSpike, analyzePriceMomentum, checkBreakoutPatterns,
\* checkMarketCapMovement, checkAccumulationPattern, checkDipRecovery and
\* checkConsolidation (lines 1037-1141); ratios by cross-multiplication
bullishRules(coin, prices) ==
  LET h1 == OrElse(coin.change1h, 0)
      h24 == OrElse(coin.change24h, 0)
      d7 == OrElse(coin.change7d, 0)
      price == OrElse(coin.currentPrice, 0)
      high == OrElse(coin.high24h, 0)
      low == OrElse(coin.low24h, 0)
      volume == OrElse(coin.volume, 0)
      marketCap == OrElse(coin.marketCap, 1)
      capChange == OrElse(coin.capChange24h, 0)
      momentumScore ==
        (IF h1 > 5 /\ h1 < 30 THEN 2 ELSE IF h1 >= 30 THEN -1 ELSE 0)
        + (IF h24 > 20 /\ h24 < 80 THEN 2 ELSE IF h24 >= 80 THEN -2 ELSE 0)
        + (IF d7 < -150 /\ h24 > 0 THEN 3 ELSE IF d7 > 150 THEN -1 ELSE 0)
      rsi == IF Len(prices) > 14 THEN calculateRSI(prices, 14) ELSE Unavailable
  IN (IF 100 * volume > 8 * marketCap /\ 100 * volume < 25 * marketCap
      THEN 2 ELSE 0)
     + (IF momentumScore >= 3 \/ momentumScore < 0 THEN momentumScore ELSE 0)
     + (IF /\ high # 0 /\ low # 0
           /\ 10 * (price - low) > 4 * (high - low)
           /\ 10 * (price - low) < 7 * (high - low) THEN 3 ELSE 0)
     + (IF capChange > 30 /\ capChange < 120 THEN 2 ELSE 0)
     + (IF Abs(h1) < 20 /\ h24 > -50 /\ 100 * volume > 5 * marketCap
        THEN 3 ELSE 0)
     + (IF d7 < -100 /\ h24 > 0 /\ h1 > -10 THEN 2 ELSE 0)
     + (IF high # 0 /\ low # 0 /\ 100 * (high - low) < 8 * price
        THEN 2 ELSE 0)
     + (IF rsi.isNull THEN 0
        ELSE IF rsi.num < 35 * rsi.den THEN 3
        ELSE IF rsi.num > 65 * rsi.den THEN -2 ELSE 0)
     + (IF h24 > 150 THEN -5 ELSE 0)

\* line 1334: below the minimums of analyzeCoin
bullishLowLiquidity(coin) ==
  OrElse(coin.marketCap, 0) < 10000000 \/ OrElse(coin.volume, 0) < 100000

\* analyzeCoin (lines 1250-1339): the score
analyzeCoin(coin, prices) ==
  LET score == bullishRules(coin, prices)
  IN IF bullishLowLiquidity(coin) THEN Max(0, score - 3) ELSE score

\* lines 1573-1638: the rules of analyzeBearishCoin before its quality filter
bearishRules(coin, prices) ==
  LET h1 == OrElse(coin.change1h, 0)
      h24 == OrElse(coin.change24h, 0)
      d7 == OrElse(coin.change7d, 0)
      price == OrElse(coin.currentPrice, 0)
      high == OrElse(coin.high24h, 0)
      volume == OrElse(coin.volume, 0)
      marketCap == OrElse(coin.marketCap, 1)
      capChange == OrElse(coin.capChange24h, 0)
      rsi == IF Len(prices) > 14 THEN calculateRSI(prices, 14) ELSE Unavailable
  IN (IF h1 < -10 /\ h24 < -30 THEN 3
      ELSE IF h1 < -5 /\ h24 < -15 THEN 2 ELSE 0)
     + (IF high > 0 /\ 100 * price < 95 * high THEN 2 ELSE 0)
     + (IF 10 * volume > marketCap /\ h24 < -20 THEN 3 ELSE 0)
     + (IF ~rsi.isNull /\ rsi.num > 70 * rsi.den THEN 3 ELSE 0)
     + (IF d7 > 150 /\ h24 < -30 THEN 2 ELSE 0)
     + (IF d7 > 0 /\ h24 < -20 /\ h1 < -10 THEN 2 ELSE 0)
     + (IF h24 > 50 /\ h1 < -20 THEN 3 ELSE 0)
     + (IF capChange < -50 /\ 100 * volume > 8 * marketCap THEN 2 ELSE 0)

\* line 1641: below the minimums of analyzeBearishCoin
bearishLowLiquidity(coin) ==
  OrElse(coin.marketCap, 1) < 50000000 \/ OrElse(coin.volume, 0) < 500000

\* lines 1645-1648: the penalty for a coin that has already declined
bearishDeclined(coin) ==
  IF OrElse(coin.change24h, 0) < -150 THEN -3 ELSE 0

\* analyzeBearishCoin (lines 1560-1651): the score
analyzeBearishCoin(coin, prices) ==
  LET score == bearishRules(coin, prices)
      filtered == IF bearishLowLiquidity(coin) THEN Max(0, score - 4)
                  ELSE score
  IN filtered + bearishDeclined(coin)

ShortCoins ==
  [change1h : {-25, 10}, change24h : {-160, -40, 50, 160},
   change7d : {-160, 160}, currentPrice : {90, 100}, high24h : {Null, 104},
   low24h : {80}, capChange24h : {-60, 50},
   volume : {50000, 600000, 5000000},
   marketCap : {Null, 5000000, 60000000}]

\* each classifier applied to a coin of a snapshot, with the stored series
\* as the asset's price history
NextShortHorizon ==
  /\ indicator.fn = "none"
  /\ \E coin \in ShortCoins :
       \/ Called("analyzeCoin", priceHistory, 14,
                 [isNull |-> FALSE, coin |-> coin,
                  score |-> analyzeCoin(coin, priceHistory)])
       \/ Called("analyzeBearishCoin", priceHistory, 14,
                 [isNull |-> FALSE, coin |-> coin,
                  score |-> analyzeBearishCoin(coin, priceHistory)])

SpecShortHorizon == InitLoaded /\ [][NextShortHorizon]_vars

(***************************************************************************)
(* Properties of the fetcher.  A step is read off the variables: a call    *)
(* enters (calls grows), goes to the network (its pc becomes "request"),   *)
(* or ends (its pc returns to "idle", or it never left it).                *)
(***************************************************************************)
CallStep == calls' = calls + 1
\* the call returned from its entry, without going to the network
ServedAtEntry == CallStep /\ call' = call
Started(c) == call[c].pc = "idle" /\ call'[c].pc = "request"
Ended(c) == call[c].pc # "idle" /\ call'[c].pc = "idle"
ReturnKinds == {"cached", "limitedCached", "limitedEmpty", "fallbackCached",
                "fallbackEmpty", "fetched"}
CachedOrEmpty(cache, limit) ==
  IF cache[limit].present THEN cache[limit].data ELSE EmptyArr
Fresh(lsf, now) == lsf \in Nat /\ now - lsf < 10 * 60 * 1000
\* throttled, with a reset time that is a number
ThrottledUntil == rateLimitInfo.isLimited /\ rateLimitInfo.resetTime \in Nat

\* C1: getTopCryptos never throws: a call in progress is always at an await
\* within its three attempts, every step that ends a call hands back a value,
\* and a call none of whose attempts succeeded hands back the cache entry's
\* data for its key, or [] when there is no entry.
C1_ReturnsCacheOrEmpty ==
  /\ [](\A c \in Callers :
          /\ call[c].pc \in {"idle", "request", "saving", "sleeping"}
          /\ call[c].pc # "idle" => call[c].attempt \in 1..3)
  /\ [][/\ (ServedAtEntry \/ \E c \in Callers : Ended(c)) =>
             /\ ret'.kind \in ReturnKinds
             /\ ret'.kind # "fetched" =>
                  ret'.data = CachedOrEmpty(apiCache', ret'.limit)
        /\ \A c \in Callers :
             Ended(c) /\ ~call[c].succeeded =>
               ret'.data = CachedOrEmpty(apiCache, call[c].limit)]_vars

\* C1 witness: a call that used up its three attempts with nothing cached
\* and handed back [].
C1_Witness ==
  /\ ret.kind = "fallbackEmpty"
  /\ ret.attempts = 3
  /\ ret.data = EmptyArr
  /\ ~apiCache[200].present

\* the reset time a 429 with the given retry-after header must produce
ExpectedBackoff429(h) ==
  CASE h = H120 -> 120 * 1000
    [] h = H0 -> 0
    [] h = NoHeader -> 5 * 60 * 1000

\* C2: a 429 response ends the call in the same step, with no further
\* attempt, and leaves isLimited = true; resetTime is the time of handling
\* plus N seconds for retry-after = N, plus 5 minutes without the header.
C2_429EndsCall ==
  [][\A c \in Callers, h \in {NoHeader, H0, H120} :
       RespondError(c, 429, h) =>
         /\ call'[c].pc = "idle"
         /\ ret'.kind \in {"fallbackCached", "fallbackEmpty"}
         /\ ret'.attempts = call[c].attempt
         /\ rateLimitInfo'.isLimited
         /\ rateLimitInfo'.resetTime = clock + ExpectedBackoff429(h)]_vars

\* C2 witness: a call ended by a 429 with retry-after 120 on its second
\* attempt.
C2_Witness ==
  /\ ret.status = 429
  /\ ret.attempts = 2
  /\ rateLimitInfo.isLimited
  /\ rateLimitInfo.resetTime = clock + 120 * 1000

\* C3: while isLimited and the time has not passed resetTime, a call goes to
\* no request, hands back the cache entry's data or [], and leaves the
\* rate-limit state and the cache as they were.
C3_ThrottledCallChangesNothing ==
  [][(CallStep /\ ThrottledUntil /\ clock <= rateLimitInfo.resetTime) =>
       /\ call' = call
       /\ ret'.kind \in ReturnKinds
       /\ ret'.data = CachedOrEmpty(apiCache, ret'.limit)
       /\ rateLimitInfo' = rateLimitInfo
       /\ apiCache' = apiCache
       /\ lastSuccessfulFetch' = lastSuccessfulFetch]_vars

\* C3 witness: a call refused at the reset time itself, with nothing cached.
C3_Witness ==
  /\ ret.kind = "limitedEmpty"
  /\ rateLimitInfo.isLimited
  /\ rateLimitInfo.resetTime = clock

\* C4 as stated: a call made while throttled and after resetTime clears
\* isLimited and goes to the network in that call.
C4_ExpiredCallRequests ==
  [][(CallStep /\ ThrottledUntil /\ clock > rateLimitInfo.resetTime) =>
       /\ ~rateLimitInfo'.isLimited
       /\ \E c \in Callers : Started(c)]_vars

\* C4 amended: a call made while throttled and after resetTime clears
\* isLimited; it then serves the cache entry when a fetch succeeded less than
\* 10 minutes ago and the key has an entry, and goes to the network otherwise.
C4_ExpiredCallClearsThenFreshness ==
  [][(CallStep /\ ThrottledUntil /\ clock > rateLimitInfo.resetTime) =>
       /\ ~rateLimitInfo'.isLimited
       /\ IF Fresh(lastSuccessfulFetch, clock) /\ apiCache[200].present
          THEN /\ call' = call
               /\ ret'.kind = "cached"
               /\ ret'.data = apiCache[200].data
          ELSE \E c \in Callers : Started(c)]_vars

\* C4 witness: a call lifted the expired limit and was served from the cache.
C4_Witness ==
  /\ ret.expired
  /\ ret.kind = "cached"
  /\ ~rateLimitInfo.isLimited

\* C5: a 503 is retried on the first and second attempt; after the third the
\* call ends with 3 attempts made, isLimited = true and, without a
\* retry-after header, resetTime = now + 60 seconds.
C5_Three503 ==
  /\ [](\A c \in Callers : call[c].attempt <= 3)
  /\ [][\A c \in Callers :
          (/\ call[c].pc = "sleeping"
           /\ call[c].errStatus = 503
           /\ call'[c].pc # "sleeping") =>
            IF call[c].attempt < 3
            THEN /\ call'[c].pc = "request"
                 /\ call'[c].attempt = call[c].attempt + 1
            ELSE /\ call'[c].pc = "idle"
                 /\ ret'.kind \in {"fallbackCached", "fallbackEmpty"}
                 /\ ret'.attempts = 3
                 /\ rateLimitInfo'.isLimited
                 /\ call[c].errHeader = NoHeader =>
                      rateLimitInfo'.resetTime = clock + 60 * 1000]_vars

\* C5 witness: a call ended after a 503 on its third attempt.
C5_Witness ==
  /\ ret.status = 503
  /\ ret.attempts = 3
  /\ rateLimitInfo.isLimited
  /\ rateLimitInfo.resetTime = clock + 60 * 1000

\* C6: a call made when not throttled hands back the cache entry without a
\* request when a fetch succeeded less than 10 minutes ago and the key has
\* an entry, and goes to the network in every other case.
C6_FreshnessRule ==
  [][(CallStep /\ ~rateLimitInfo.isLimited) =>
       IF Fresh(lastSuccessfulFetch, clock) /\ apiCache[200].present
       THEN /\ call' = call
            /\ ret'.kind = "cached"
            /\ ret'.data = apiCache[200].data
       ELSE /\ \E c \in Callers : Started(c)
            /\ ret'.kind = "none"]_vars

\* C6 witness: a first attempt under way for a key that has an entry, the
\* last successful fetch being exactly 10 minutes old.
C6_Witness ==
  /\ call[1].pc = "request"
  /\ call[1].attempt = 1
  /\ ~rateLimitInfo.isLimited
  /\ apiCache[200].present
  /\ lastSuccessfulFetch \in Nat
  /\ clock - lastSuccessfulFetch = 10 * 60 * 1000

LeaderLabels == {"Bitcoin", "Large Cap Altcoins", "Small Cap Altcoins",
                 "Mixed"}
PhaseLabels == {"Cycle Top Warning", "Late Cycle", "Cycle Bottom Opportunity",
                "Early Cycle", "Mid Cycle"}

\* the ten most recent raw labels of each channel, newest included
RecentLeaderLabels == LastN(marketLeaderHistory, 10)
RecentPhaseLabels == LastN(PhasesOf(cycleHistory), 10)

NewestCycleEntry == cycleHistory[Len(cycleHistory)]
\* |newest - mean over the last 5 entries| * 10 * m, m the number of entries
RiskDeviation ==
  LET e == LastN(cycleHistory, 5)
  IN Abs(Len(e) * NewestCycleEntry.risk - SumSeq(RisksOf(e)))
OpportunityDeviation ==
  LET e == LastN(cycleHistory, 5)
  IN Abs(Len(e) * NewestCycleEntry.opportunity - SumSeq(OpportunitiesOf(e)))
\* 2.0 on the same scale
CycleTolerance == 20 * Len(LastN(cycleHistory, 5))

SegmentHolds ==
  \A a \in LeaderLabels :
    (CountOf(RecentLeaderLabels, a) >= 7 /\ leaderResult.margin < 3) =>
      leaderResult.leader = a

C9_DeviationPublishesRaw ==
  /\ (/\ Len(cycleHistory) >= 1
      /\ \/ RiskDeviation > CycleTolerance
         \/ OpportunityDeviation > CycleTolerance) =>
       cycleResult.phase = NewestCycleEntry.phase
  /\ (Len(marketLeaderHistory) >= 1 /\ leaderResult.margin > 3) =>
       leaderResult.leader = marketLeaderHistory[Len(marketLeaderHistory)]

\* C9 witness: Mid Cycle holds 5 of the last 8 raw phases, the newest reading
\* is a Cycle Top Warning whose risk is more than 2 from the mean while its
\* opportunity is not, and the warning is published.
C9_Witness ==
  /\ Len(cycleHistory) >= 8
  /\ CountOf(LastN(PhasesOf(cycleHistory), 8), "Mid Cycle") = 5
  /\ NewestCycleEntry.phase = "Cycle Top Warning"
  /\ RiskDeviation > CycleTolerance
  /\ OpportunityDeviation < CycleTolerance
  /\ cycleResult.phase = "Cycle Top Warning"

NewestRaw == htfHistory[Len(htfHistory)]
Qualifying == Cardinality({i \in 1..Len(htfHistory) : htfHistory[i] >= 5})
FloorApplies == Qualifying >= 3 /\ NewestRaw >= 4
\* |newest - mean of the last 5 raw scores| * m
RawDeviation ==
  LET e == LastN(htfHistory, 5) IN Abs(Len(e) * NewestRaw - SumSeq(e))
NineQualifyingThenLow ==
  /\ Len(htfHistory) = 10
  /\ \A i \in 1..9 : htfHistory[i] >= 5
  /\ NewestRaw = 0

C11_SeriesHoldsLatestIngested ==
  LET n == Len(ingestedPrices)
      k == IF n < 50 THEN n ELSE 50
  IN /\ Len(priceHistory) <= 50
     /\ Len(priceHistory) >= k
     /\ LastN(priceHistory, k) = LastN(ingestedPrices, k)
     /\ (n = 60 /\ priceStart = << >>) =>
          priceHistory = SubSeq(ingestedPrices, 11, 60)

\* the history after one more observation: appended last, the oldest entry
\* removed when that makes it longer than k
AppendedEvictingOldest(h, x, k) ==
  IF Len(h) < k THEN Append(h, x) ELSE Append(Tail(h), x)

\* C12: the long-horizon score history never has more than 10 entries, the
\* dominant-segment history never more than 15, the cycle-phase history never
\* more than 12, and each tick appends its observation last and removes the
\* oldest entry when the history was full.
C12_HistoriesWithinCapacity ==
  /\ [](/\ Len(htfHistory) <= 10
        /\ Len(marketLeaderHistory) <= 15
        /\ Len(cycleHistory) <= 12)
  /\ [][/\ \A raw \in RawScores :
             analyzeHTFInvestmentWithStability(raw) =>
               htfHistory' = AppendedEvictingOldest(htfHistory, raw, 10)
        /\ \A ch \in ChangeTriples :
             identifyMarketLeaderWithStability(ch[1], ch[2], ch[3]) =>
               marketLeaderHistory' =
                 AppendedEvictingOldest(marketLeaderHistory,
                                        leaderResult'.raw, 15)
        /\ \A sc \in {MidScores, LateScores} :
             determineCyclePhaseWithStability(sc[1], sc[2]) =>
               /\ Len(cycleHistory') >= 1
               /\ cycleHistory'[Len(cycleHistory')].risk = sc[1]
               /\ cycleHistory'[Len(cycleHistory')].opportunity = sc[2]
               /\ cycleHistory' =
                    AppendedEvictingOldest(cycleHistory,
                      cycleHistory'[Len(cycleHistory')], 12)]_vars

\* C12 witness: the cycle-phase history is full, its oldest and its newest
\* entry Late Cycle readings around ten Mid Cycle ones.
C12_Witness ==
  /\ Len(cycleHistory) = 12
  /\ cycleHistory[1].phase = "Late Cycle"
  /\ cycleHistory[12].phase = "Late Cycle"
  /\ \A i \in 2..11 : cycleHistory[i].phase = "Mid Cycle"

(***************************************************************************)
(* Properties of the dashboard.                                            *)
(***************************************************************************)
\* the step in which a cycle returns because getTopCryptos handed it no
\* asset: from its await, or from the entry of the call
ZeroAssetCycleEnds ==
  \/ /\ \E c \in Callers : run[c].pc = "fetching" /\ run'[c].pc = "idle"
     /\ caught' = caught
  \/ started' = started + 1 /\ run' = run /\ caught' = caught

\* C13: a cycle that retrieves zero assets leaves a published analysis and
\* market trend unchanged, and when nothing is published yet it publishes a
\* placeholder carrying an error field and empty alert lists.
C13_ZeroAssetsNeverErase ==
  [][ZeroAssetCycleEnds =>
       IF lastAnalysis.kind # "null"
       THEN UNCHANGED <<lastAnalysis, lastMarketTrend>>
       ELSE lastAnalysis'.kind = "error" /\ lastAnalysis'.alerts = 0]_vars

\* the cycles in progress: started and not yet returned
InProgress == {c \in Callers : run[c].pc # "idle"}

\* C14: at most one analysis cycle is in progress at any time, whether it was
\* started by the constructor, by the 5-minute timer or by POST /api/refresh.
C14_OneCycleAtATime == Cardinality(InProgress) <= 1

\* The steps the process takes by itself are taken eventually: an expired
\* request timeout (line 714), the end of a back-off sleep, a completed file
\* write, the continuation after an await of a local computation.  A
\* response of the upstream is not: the upstream may never answer.
SpecDashboardFair ==
  /\ SpecDashboard
  /\ \A c \in Callers :
       /\ WF_vars(Timeout(c) /\ fetching(c))
       /\ WF_vars(Wake(c) /\ fetching(c))
       /\ WF_vars(SaveDone(c) /\ fetching(c))
       /\ WF_vars(analyzeCycles(c, 50, 50))
       /\ WF_vars(publishAnalysis(c, 5))
       /\ WF_vars(historiesSaved(c))

\* C15: every analysis cycle that starts eventually finishes, whatever the
\* upstream does.
C15_EveryCycleFinishes ==
  \A c \in Callers : (run[c].pc # "idle") ~> (run[c].pc = "idle")

(***************************************************************************)
(* Properties of the indicator library.                                    *)
(***************************************************************************)
\* C16: a series shorter than an indicator's window gets null from it:
\* fewer than period + 1 prices from calculateRSI, fewer than period from
\* calculateSMA, calculateEMA and calculateBollingerBands, fewer than
\* slowPeriod from calculateMACD; and calculateTechnicalAnalysis reports
\* available = false when neither the stored series nor the non-null points
\* of the sparkline number 20.
C16_ShortSeriesUnavailable ==
  LET n == Len(indicator.prices)
      usable == Cardinality({i \in DOMAIN indicator.sparkline :
                               indicator.sparkline[i] # Null})
  IN /\ (indicator.fn = "calculateRSI" /\ n < indicator.period + 1)
          => indicator.value.isNull
     /\ (/\ indicator.fn \in {"calculateSMA", "calculateEMA", "calculateMACD",
                              "calculateBollingerBands"}
         /\ n < indicator.period)
          => indicator.value.isNull
     /\ (indicator.fn = "calculateTechnicalAnalysis" /\ n < 20 /\ usable < 20)
          => /\ ~indicator.value.available
             /\ indicator.value.rsi.isNull
             /\ indicator.value.sma20.isNull

\* C16 witness: a stored series of 19 prices with a sparkline of 20 points,
\* one of them null, was analysed and reported unavailable.
C16_Witness ==
  /\ indicator.fn = "calculateTechnicalAnalysis"
  /\ Len(indicator.prices) = 19
  /\ Len(indicator.sparkline) = 20
  /\ ~indicator.value.available

\* the newest `period' deltas of a series
RecentDeltas(prices, period) == LastN(Deltas(prices), period)
LossAmong(deltas) == \E i \in DOMAIN deltas : deltas[i] < 0

\* C17: for a series of at least period + 1 prices calculateRSI returns a
\* value in [0, 100] computed from the newest `period' deltas: 100 exactly
\* when none of them is a loss, otherwise 100 times their summed gains over
\* their summed gains and losses.
C17_OscillatorOfRecentDeltas ==
  (indicator.fn = "calculateRSI"
     /\ Len(indicator.prices) >= indicator.period + 1) =>
    LET recent == RecentDeltas(indicator.prices, indicator.period)
        gain == SumSeq([i \in DOMAIN recent |-> Max(recent[i], 0)])
        loss == SumSeq([i \in DOMAIN recent |-> Max(-recent[i], 0)])
        v == indicator.value
    IN /\ ~v.isNull
       /\ 0 <= v.num /\ v.num <= 100 * v.den
       /\ (v.num = 100 * v.den) <=> ~LossAmong(recent)
       /\ v.num * (gain + loss) = 100 * gain * v.den \/ loss = 0

(***************************************************************************)
(* Properties of the long-horizon classifier.                              *)
(***************************************************************************)
\* the score of all the rules but the quality filter
htfOtherRules(coin, prices) ==
  LET before == htfRulesBeforeFilter(coin, prices)
  IN before + htfRulesAfterFilter(coin, before)

\* C18: for a coin below the long-horizon minimums the raw score returned by
\* analyzeHTFInvestment is the score of the other rules less 6, floored at 0.
C18_PenaltyIsExactlySix ==
  (indicator.fn = "analyzeHTFInvestment"
     /\ htfLowLiquidity(indicator.value.coin)) =>
    indicator.value.score =
      Max(0, htfOtherRules(indicator.value.coin, indicator.prices) - 6)

\* C19: when at least 3 of the last 10 raw long-horizon scores, the newest
\* included, are 5 or more and the newest is 4 or more, the published score
\* is at least 5.0, the threshold of the long-horizon list.
C19_FloorKeepsAssetListed ==
  LET recent == LastN(htfHistory, 10)
      n == Len(recent)
  IN (/\ n >= 1
      /\ Cardinality({i \in 1..n : recent[i] >= 5}) >= 3
      /\ recent[n] >= 4) =>
       /\ htfResult.raw = recent[n]
       /\ htfResult.score10 >= 50

\* C19 witness: ten stored scores averaging less than 5, three of them 5,
\* the newest 4, published as exactly 5.0.
C19_Witness ==
  /\ Len(htfHistory) = 10
  /\ Qualifying = 3
  /\ NewestRaw = 4
  /\ SumSeq(htfHistory) < 30
  /\ htfResult.score10 = 50

(***************************************************************************)
(* Properties of the request counter.                                      *)
(***************************************************************************)
\* C20: the request counter grows by one per network attempt and never
\* decreases: when the first getTopCryptos call of the process returns after
\* n attempts the counter, 0 at the start, is n.
C20_CounterCountsAttempts ==
  [][/\ rateLimitInfo'.requestCount >= rateLimitInfo.requestCount
     /\ \A c \in Callers :
          (Ended(c) /\ calls = 1) =>
            rateLimitInfo'.requestCount = ret'.attempts]_vars

\* C21: the fetcher becomes throttled only on a 429 response or when the
\* last of the 3 attempts fails transiently (5xx, timeout, network error);
\* a 4xx response other than 429 ends the call without a retry and without
\* setting isLimited.
C21_ThrottledOnlyBy429OrExhaustion ==
  [][/\ (~rateLimitInfo.isLimited /\ rateLimitInfo'.isLimited) =>
          \/ ret'.status = 429
          \/ ret'.attempts = maxRetries /\ ret'.status \in {503, NoResponse}
     /\ \A c \in Callers :
          (Ended(c) /\ ret'.status = 404) =>
            /\ ret'.attempts = call[c].attempt
            /\ rateLimitInfo'.isLimited = rateLimitInfo.isLimited]_vars

\* a cycle ends in the catch block of runAnalysis
CycleThrows ==
  /\ caught' = caught + 1
  /\ \/ \E c \in Callers : run[c].pc = "fetching" /\ run'[c].pc = "idle"
     \/ started' = started + 1 /\ run' = run

\* C22: an exception raised inside runAnalysis is caught inside it: the step
\* that raises it ends the cycle and leaves the published lastAnalysis and
\* lastMarketTrend as they were; a later timer-triggered cycle starts and
\* publishes (C22_Witness).
C22_FailedCycleStopsNothing ==
  [][caught' # caught =>
       /\ CycleThrows
       /\ UNCHANGED <<lastAnalysis, lastMarketTrend>>]_vars
\* a cycle failed and the latest cycle, started by the timer, has published
\* over an earlier publication
C22_Witness ==
  /\ caught >= 1
  /\ started >= 2
  /\ timerFired = started - 1
  /\ lastAnalysis.kind = "analysis"
  /\ lastAnalysis.cycle = started
  /\ \A c \in Callers : run[c].pc = "idle"

\* the coin loop has run
Analysed == indicator.fn = "coinLoop"
Listed(list, i) == \E k \in 1..Len(list) : list[k].id = i
Descending(list) ==
  \A k \in 1..(Len(list) - 1) : list[k].score >= list[k + 1].score
ListsSorted ==
  /\ Descending(indicator.value.alerts.bullishAlerts)
  /\ Descending(indicator.value.alerts.bearishAlerts)
  /\ Descending(indicator.value.alerts.htfAlerts)

StrictlyIncreasing(q) == \A i \in 1..(Len(q) - 1) : q[i] < q[i + 1]
Bullish == "Bullish MA alignment (Price > SMA20 > SMA50)"
InSignals(str, signals) == \E k \in 1..Len(signals) : signals[k] = str
TechnicalAnalysed ==
  indicator.fn = "calculateTechnicalAnalysis" /\ indicator.value.available

\* C24 as stated: for a strictly increasing series of 30 points or more the
\* 20-point average is at least the 50-point average, and when the current
\* price exceeds the averages the series has, in increasing order, the signal
\* list contains the bullish MA alignment string.
C24_AlignmentFromThirtyPoints ==
  LET v == indicator.value
      price == Frac(v.currentPrice, 1)
  IN (TechnicalAnalysed /\ StrictlyIncreasing(v.prices) /\ Len(v.prices) >= 30)
       => /\ ~v.sma50.isNull => ~FracGt(v.sma50, v.sma20)
          /\ (/\ FracGt(price, v.sma20)
              /\ v.sma50.isNull \/ FracGt(v.sma20, v.sma50))
               => InSignals(Bullish, v.signals)

\* C24 amended: for a strictly increasing series of 50 points or more the
\* 20-point average is at least the 50-point average; whenever both averages
\* are available and not zero and the current price exceeds the 20-point
\* average and that the 50-point one, the signal list contains the bullish MA
\* alignment string; a series of fewer than 50 points has no 50-point average
\* and gets no MA alignment signal.
C24_AlignmentNeedsFiftyPoints ==
  LET v == indicator.value
      price == Frac(v.currentPrice, 1)
  IN TechnicalAnalysed
       => /\ (StrictlyIncreasing(v.prices) /\ Len(v.prices) >= 50)
               => ~v.sma50.isNull /\ ~FracGt(v.sma50, v.sma20)
          /\ (/\ ~Falsy(v.sma20) /\ ~Falsy(v.sma50)
              /\ FracGt(price, v.sma20) /\ FracGt(v.sma20, v.sma50))
               => InSignals(Bullish, v.signals)
          /\ Len(v.prices) < 50 => v.sma50.isNull /\ v.signals = << >>
\* a strictly increasing series of 50 points with the current price above
\* both averages got the bullish MA alignment signal
C24_Witness ==
  /\ TechnicalAnalysed
  /\ Len(indicator.value.prices) = 50
  /\ StrictlyIncreasing(indicator.value.prices)
  /\ FracGt(Frac(indicator.value.currentPrice, 1), indicator.value.sma20)
  /\ FracGt(indicator.value.sma20, indicator.value.sma50)
  /\ InSignals(Bullish, indicator.value.signals)

\* a cycle starts while the fetcher is throttled and is refused at the entry
\* of getTopCryptos
ThrottledCycleStarts == ServedAtEntry /\ rateLimitInfo'.isLimited

\* C25: a cycle that runs while isLimited is true, its snapshot served from
\* the cache, issues no request to the upstream in any of its steps: it does
\* not go on to await the response of the market-cap-index request.
C25_ThrottledCycleIssuesNoRequest ==
  [][ThrottledCycleStarts =>
       /\ \A c \in Callers : call'[c].pc = "request" => call[c].pc = "request"
       /\ \A c \in Callers : run'[c].pc = "indices" => run[c].pc = "indices"]_vars

\* C26: the wait before the next attempt is exponential in the attempt number
\* n: min(1 s * 2^(n-1), 30 s) after a 5xx response, and
\* min(2 s * 2^(n-1), 10 s) after a timeout (2 s, 4 s, 8 s).
C26_ExponentialRetryDelays ==
  [][\A c \in Callers :
       (call[c].pc = "request" /\ call'[c].pc = "sleeping") =>
         LET n == call[c].attempt
         IN /\ call'[c].errStatus = 503 =>
                 call'[c].backoffMs = Min(1000 * Pow2(n - 1), 30000)
            /\ call'[c].errCode = "ECONNABORTED" =>
                 call'[c].backoffMs = Min(2000 * Pow2(n - 1), 10000)]_vars

\* C27: when the fetcher becomes throttled by a response carrying a
\* retry-after header of N seconds, resetTime = now + N seconds, for a 429 and
\* for a 5xx response that exhausted the retries alike; the defaults apply
\* only to a response without the header.
C27_RetryAfterHonoured ==
  [][\A c \in Callers :
       /\ (Ended(c) /\ ret'.status = 429) =>
            rateLimitInfo'.resetTime \in
              {Add(clock, Mul(ParseInt(h), 1000)) : h \in Headers \ {NoHeader}}
                \cup {clock + defaultBackoff429}
       /\ (Ended(c) /\ ret'.status = 503 /\ call[c].pc = "sleeping") =>
            rateLimitInfo'.resetTime =
              IF HeaderPresent(call[c].errHeader)
              THEN Add(clock, Mul(ParseInt(call[c].errHeader), 1000))
              ELSE clock + defaultBackoffOther]_vars

\* C28: while isLimited is true resetTime is set, and it was strictly later
\* than the clock when isLimited became true; isLimited turns false only in
\* the expiry check at the start of a getTopCryptos call, which clears
\* resetTime too.
C28_LimitedHasLaterResetTime ==
  [][/\ rateLimitInfo'.isLimited => rateLimitInfo'.resetTime # Null
     /\ (~rateLimitInfo.isLimited /\ rateLimitInfo'.isLimited) =>
          /\ rateLimitInfo'.resetTime \in Nat
          /\ rateLimitInfo'.resetTime > clock
     /\ (rateLimitInfo.isLimited /\ ~rateLimitInfo'.isLimited) =>
          CallStep /\ rateLimitInfo'.resetTime = Null]_vars

\* the windows of the two channels, newest entry included
LeaderWindowLabels == LastN(marketLeaderHistory, leaderWindow)
PhaseWindowLabels == PhasesOf(LastN(cycleHistory, cycleWindow))
\* the dominant label holds strictly more than 0.6 of the window
Dominates(labels) ==
  10 * CountOf(labels, Dominant(labels)) > 6 * Len(labels)
CycleWithinTolerance ==
  RiskDeviation < CycleTolerance /\ OpportunityDeviation < CycleTolerance
LeaderAsDecided(stable) ==
  IF stable
  THEN /\ leaderResult.stabilized
       /\ leaderResult.leader = Dominant(LeaderWindowLabels)
  ELSE /\ ~leaderResult.stabilized
       /\ leaderResult.leader = marketLeaderHistory[Len(marketLeaderHistory)]
       /\ leaderResult.stabilityRatio = 100
PhaseAsDecided(stable) ==
  IF stable
  THEN /\ cycleResult.stabilized
       /\ cycleResult.phase = Dominant(PhaseWindowLabels)
  ELSE /\ ~cycleResult.stabilized
       /\ cycleResult.phase = NewestCycleEntry.phase
       /\ cycleResult.stabilityRatio = 100
       /\ cycleResult.riskVolatility = 0
       /\ cycleResult.opportunityVolatility = 0

\* C29 as stated: the dominant label is published, annotated as stabilized,
\* exactly when the dominance ratio is strictly greater than 0.6 and the
\* newest observation is within tolerance; otherwise the newest raw label is
\* published with the ratio reported as 100 and, in the cycle-phase channel,
\* zero deviations.
C29_StabilizedExactlyAboveSixTenths ==
  /\ marketLeaderHistory # << >> =>
       LeaderAsDecided(Dominates(LeaderWindowLabels) /\ leaderResult.margin < 3)
  /\ cycleHistory # << >> =>
       PhaseAsDecided(Dominates(PhaseWindowLabels) /\ CycleWithinTolerance)

\* C29 amended: the same decision, taken only on a history of at least 3
\* entries (newest included); on a shorter history the newest raw label is
\* published, not annotated, with the ratio reported as 100 and zero
\* deviations.
C29_StabilizedFromThreeEntries ==
  /\ marketLeaderHistory # << >> =>
       LeaderAsDecided(/\ Len(marketLeaderHistory) >= 3
                       /\ Dominates(LeaderWindowLabels)
                       /\ leaderResult.margin < 3)
  /\ cycleHistory # << >> =>
       PhaseAsDecided(/\ Len(cycleHistory) >= 3
                      /\ Dominates(PhaseWindowLabels)
                      /\ CycleWithinTolerance)
\* 6 of the 10 labels of the window are Bitcoin, the newest is not, its
\* margin is within tolerance, and it is published as it is
C29_Witness ==
  /\ Len(marketLeaderHistory) >= 10
  /\ CountOf(LeaderWindowLabels, "Bitcoin") = 6
  /\ Dominant(LeaderWindowLabels) = "Bitcoin"
  /\ marketLeaderHistory[Len(marketLeaderHistory)] = "Small Cap Altcoins"
  /\ leaderResult.margin < 3
  /\ leaderResult.leader = "Small Cap Altcoins"
  /\ ~leaderResult.stabilized

\* the decision of each channel taken with the dominant count over `size'
RatioOver(result, labels, size, longEnough, withinTolerance) ==
  LET count == CountOf(labels, Dominant(labels))
  IN /\ result.stabilized =>
          /\ 10 * count > 6 * size
          /\ result.stabilityRatio = RoundDiv(100 * count, size)
     /\ (longEnough /\ withinTolerance /\ 10 * count > 6 * size) =>
          result.stabilized

\* C30 as stated: the dominance ratio of the hysteresis decision is the count
\* of the dominant label among the most recent W entries divided by W (10 in
\* the dominant-segment channel, 8 in the cycle-phase channel), also when the
\* history holds fewer than W entries.
C30_RatioOverWindowSize ==
  /\ marketLeaderHistory # << >> =>
       RatioOver(leaderResult, LeaderWindowLabels, 10,
                 Len(marketLeaderHistory) >= 3, leaderResult.margin < 3)
  /\ cycleHistory # << >> =>
       RatioOver(cycleResult, PhaseWindowLabels, 8,
                 Len(cycleHistory) >= 3, CycleWithinTolerance)

\* C30 amended: the ratio is the count of the dominant label among the most
\* recent W entries divided by the number of entries in that window, which is
\* W only once the history holds W entries.
C30_RatioOverEntriesInWindow ==
  /\ marketLeaderHistory # << >> =>
       RatioOver(leaderResult, LeaderWindowLabels, Len(LeaderWindowLabels),
                 Len(marketLeaderHistory) >= 3, leaderResult.margin < 3)
  /\ cycleHistory # << >> =>
       RatioOver(cycleResult, PhaseWindowLabels, Len(PhaseWindowLabels),
                 Len(cycleHistory) >= 3, CycleWithinTolerance)
\* a history of 5 segment labels, 4 of them the dominant one, is stabilized
\* with a reported ratio of 80
C30_Witness ==
  /\ Len(marketLeaderHistory) = 5
  /\ CountOf(LeaderWindowLabels, Dominant(LeaderWindowLabels)) = 4
  /\ leaderResult.stabilized
  /\ leaderResult.stabilityRatio = 80

\* the labels with the highest count in a window, and where a label first
\* occurs in it
MostFrequent(labels) ==
  {x \in {labels[i] : i \in 1..Len(labels)} :
     \A j \in 1..Len(labels) : CountOf(labels, x) >= CountOf(labels, labels[j])}
FirstOccurrence(labels, x) ==
  CHOOSE i \in 1..Len(labels) :
    labels[i] = x /\ \A j \in 1..(i - 1) : labels[j] # x
Tied(labels) == Cardinality(MostFrequent(labels)) >= 2

AdjacentChanges(labels) ==
  Cardinality({i \in 2..Len(labels) : labels[i] # labels[i - 1]})

\* C32: the published recentSwitches is the number of adjacent label changes
\* among the most recent W history entries (10 in the dominant-segment
\* channel, 8 in the cycle-phase channel), whatever the history length.
C32_SwitchesOfRecentWindow ==
  /\ marketLeaderHistory # << >> =>
       leaderResult.recentSwitches = AdjacentChanges(LeaderWindowLabels)
  /\ cycleHistory # << >> =>
       cycleResult.recentSwitches = AdjacentChanges(PhaseWindowLabels)

\* C33: for an asset below the short-horizon minimums the score of each
\* short-horizon classifier is its rule total minus the penalty, floored at
\* 0, and so never negative.
C33_ShortHorizonScoreFloored ==
  LET coin == indicator.value.coin
      prices == indicator.prices
  IN /\ (indicator.fn = "analyzeCoin" /\ bullishLowLiquidity(coin)) =>
          /\ indicator.value.score = Max(0, bullishRules(coin, prices) - 3)
          /\ indicator.value.score >= 0
     /\ (indicator.fn = "analyzeBearishCoin" /\ bearishLowLiquidity(coin)) =>
          /\ indicator.value.score =
               Max(0, bearishRules(coin, prices) + bearishDeclined(coin) - 4)
          /\ indicator.value.score >= 0

\* a step that calls calculateTechnicalAnalysis
TechnicalAnalysisStep ==
  indicator' # indicator /\ indicator'.fn = "calculateTechnicalAnalysis"

\* C34: calculateTechnicalAnalysis analyses the sparkline only when the
\* stored history has fewer than 20 points and the sparkline has at least 20
\* points that are not null; it leaves the stored price history as it was;
\* and the dataSource it reports is 'sparkline' exactly when the sparkline is
\* the series it analysed.
C34_SparklineOnlyAsFallback ==
  [][TechnicalAnalysisStep =>
       LET history == indicator'.prices
           usable == NonNull(indicator'.sparkline)
           v == indicator'.value
       IN /\ v.prices # history =>
               /\ v.prices = usable
               /\ Len(history) < 20
               /\ Len(usable) >= 20
          /\ (Len(history) < 20 /\ Len(usable) >= 20) => v.prices = usable
          /\ history = priceHistory
          /\ UNCHANGED <<priceHistory, priceFile, ingestedPrices>>
          /\ v.available =>
               (v.dataSource = "sparkline" <=> v.prices # history)]_vars
\* a stored series of 19 points was set aside for a sparkline of 21 points,
\* one of them null, and the source reported is the sparkline
C34_Witness ==
  /\ indicator.fn = "calculateTechnicalAnalysis"
  /\ Len(indicator.prices) = 19
  /\ Len(indicator.sparkline) = 21
  /\ Len(indicator.value.prices) = 20
  /\ indicator.value.available
  /\ indicator.value.dataSource = "sparkline"
  /\ priceHistory = indicator.prices

\* the read started by the constructor completes
LoadCompletes == ~priceLoaded /\ priceLoaded'

\* C35 as stated: a load started by the constructor that completes after a
\* cycle has ingested a snapshot leaves the in-memory price history as the
\* cycle left it.
C35_LoadsKeepCycleUpdates ==
  [][(LoadCompletes /\ ingestedPrices # << >>) =>
       priceHistory' = priceHistory]_vars

\* getTopCryptos hands back the cache entry of its key as fresh: at its
\* entry, the fetcher not throttled
ServedAsFresh ==
  ServedAtEntry /\ ret'.kind = "cached" /\ ~rateLimitInfo'.isLimited

\* C36 as stated: whenever getTopCryptos serves the cache entry of its key as
\* fresh, that entry's own timestamp is less than 10 minutes old, whatever
\* the key.
C36_FreshEntryIsItselfRecent ==
  [][ServedAsFresh =>
       clock - apiCache[ret'.limit].timestamp < maxCacheAge]_vars

\* C37 as stated, for the analyses that cycles publish: the published
\* analysis is never replaced by the analysis of a cycle that started before
\* the cycle whose analysis is published.
C37_PublishedNeverGoesBack ==
  [][(lastAnalysis.kind = "analysis" /\ lastAnalysis'.kind = "analysis") =>
       lastAnalysis'.cycle >= lastAnalysis.cycle]_vars

\* the snapshots retrieved from the upstream so far: updateRateLimitInfo
\* counts the 2xx responses of getTopCryptos
SnapshotsRetrieved == rateLimitInfo.requestCount

\* C38 as stated: the asset's price history and long-horizon score history,
\* and the segment and phase histories, have gained at most one entry per
\* snapshot retrieved from the upstream.
C38_OneEntryPerSnapshot ==
  /\ Len(ingestedPrices) <= SnapshotsRetrieved
  /\ Len(htfHistory) <= SnapshotsRetrieved
  /\ Len(marketLeaderHistory) <= SnapshotsRetrieved
  /\ Len(cycleHistory) <= SnapshotsRetrieved

\* C39 as stated: however the throttled state was entered, resetTime is a
\* finite time while isLimited is true, and a getTopCryptos call made after
\* it clears isLimited, so the throttled state cannot last forever.
C39_ThrottlingEnds ==
  [][/\ rateLimitInfo'.isLimited => rateLimitInfo'.resetTime \in Nat
     /\ (CallStep /\ ThrottledUntil /\ clock > rateLimitInfo.resetTime) =>
          ~rateLimitInfo'.isLimited]_vars

\* the label holds more than half of the entries of the window
StrictMajority(labels, x) == 2 * CountOf(labels, x) > Len(labels)

\* C40: a label published as stabilized by the dominant-segment or the
\* cycle-phase channel holds a strict majority of the window's entries and is
\* the only most frequent label of the window, so no tie is involved in it;
\* and while the history has fewer than 3 entries the newest raw label is
\* the one published, not stabilized.
C40_StabilizedLabelHasMajority ==
  /\ leaderResult.stabilized =>
       /\ StrictMajority(LeaderWindowLabels, leaderResult.leader)
       /\ MostFrequent(LeaderWindowLabels) = {leaderResult.leader}
  /\ cycleResult.stabilized =>
       /\ StrictMajority(PhaseWindowLabels, cycleResult.phase)
       /\ MostFrequent(PhaseWindowLabels) = {cycleResult.phase}
  /\ Len(marketLeaderHistory) \in 1..2 =>
       /\ ~leaderResult.stabilized
       /\ leaderResult.leader = marketLeaderHistory[Len(marketLeaderHistory)]
  /\ Len(cycleHistory) \in 1..2 =>
       /\ ~cycleResult.stabilized
       /\ cycleResult.phase = NewestCycleEntry.phase
\* the dominant segment published as stabilized is not the newest raw label:
\* it holds seven of the ten entries of the window
C40_Witness ==
  /\ leaderResult.stabilized
  /\ leaderResult.leader # leaderResult.raw
  /\ Len(LeaderWindowLabels) = 10
  /\ CountOf(LeaderWindowLabels, leaderResult.leader) = 7

====
